---- MODULE Spec2Model ----
(***************************************************************************)
(* Audit log explorer: the useAuditLogs hook with the hooks it composes    *)
(* (useAuditPagination, useAuditFilters) and the page fetcher of           *)
(* auditLogService.ts.                                                     *)
(*                                                                         *)
(* One action is one JavaScript task: an event handler together with the   *)
(* render it causes and the useEffect that re-runs when fetchAuditLogs     *)
(* gets a new identity, or the continuation of one awaited remote call.    *)
(* The remote service is the environment: it answers every request that is *)
(* in flight, in any order, with any of the response shapes the fetcher    *)
(* tolerates.                                                              *)
(***************************************************************************)
EXTENDS Integers, Sequences, FiniteSets, TLC

\* ---------------------------------------------------------------- bounds
MaxPage == 3            \* setPage is called with pages 1..MaxPage
MaxFetches == 3         \* remote calls (page and detail fetches) issued
MaxInFlight == 2        \* page fetches awaiting their response at once
MaxFilterChanges == 1   \* filter dispatches in one behaviour
MaxDetailFetches == 2   \* detail fetches issued in one behaviour
NumVersions == 2        \* distinct cursors the service may return for one page
MaxExportPages == 3     \* page requests of one queryAllAuditLogs call
MaxExports == 1         \* exportData calls in one behaviour
MaxPrivilegeCalls == 3  \* loadPrivileges calls in one behaviour
MaxPrivilegeClears == 1 \* clearPrivilegeCache calls in one behaviour
MaxLookups == 2         \* remote lookups per principal or table

\* ------------------------------------------------------- program constants
DEFAULT_PAGE_SIZE == 50

\* ------------------------------------------------------------ input values
Null == "null"
Undefined == [set |-> FALSE]                 \* no cursor
EmptyString == [set |-> TRUE, text |-> FALSE] \* the cursor string ""
PageSizes == {25, DEFAULT_PAGE_SIZE}
Pages == 1..MaxPage
TableLists == {<<"contact">>}
RecordIds == {"r1"}
EntryIds == {"a1"}
EntityNames == {Null, "contact"}
PartialRows == 12
ReportedTotal == 62

\* ------------------------------------------------------------ filter state
initialFiltersState ==
  [tableLogicalNames |-> <<>>, recordId |-> Null, recordName |-> Null,
   selectedAttributes |-> <<>>, operations |-> <<>>, actions |-> <<>>,
   fromDate |-> Null, toDate |-> Null,
   selectedUsers |-> <<>>, selectedSecurityRoles |-> <<>>]

filterReducerKeepsRecord(state, type, payload) ==
  CASE type = "SET_TABLES" -> [state EXCEPT !.tableLogicalNames = payload]
    [] type = "SET_RECORD" ->
         [state EXCEPT !.recordId = payload.id, !.recordName = payload.name]
    [] OTHER -> state

filterReducerClearsTables(state, type, payload) ==
  CASE type = "SET_TABLES" -> [state EXCEPT !.tableLogicalNames = payload]
    [] type = "CLEAR_FILTERS" -> initialFiltersState
    [] OTHER -> state

filterReducer(state, type, payload) ==
  CASE type = "SET_TABLES" ->
         [state EXCEPT !.tableLogicalNames = payload,
                       !.recordId = Null, !.recordName = Null]
    [] type = "SET_RECORD" ->
         [state EXCEPT !.recordId = payload.id, !.recordName = payload.name]
    [] type = "SET_ATTRIBUTES" -> [state EXCEPT !.selectedAttributes = payload]
    [] type = "SET_OPERATIONS" -> [state EXCEPT !.operations = payload]
    [] type = "SET_ACTIONS" -> [state EXCEPT !.actions = payload]
    [] type = "SET_FROM_DATE" -> [state EXCEPT !.fromDate = payload]
    [] type = "SET_TO_DATE" -> [state EXCEPT !.toDate = payload]
    [] type = "SET_USERS" -> [state EXCEPT !.selectedUsers = payload]
    [] type = "SET_SECURITY_ROLES" ->
         [state EXCEPT !.selectedSecurityRoles = payload]
    [] type = "CLEAR_FILTERS" ->
         [initialFiltersState EXCEPT
            !.tableLogicalNames = state.tableLogicalNames]
    [] OTHER -> state

\* fetchAuditLogs takes the record-history route for one table + one record
UsesRecordHistory(f) ==
  f.recordId # Null /\ Len(f.tableLogicalNames) = 1

QueryKeyAllConditions(f) ==
  [f EXCEPT !.selectedAttributes = <<>>, !.recordName = Null]

\* The part of the filter state that reaches the wire query: the history
\* query filters on the record id alone, the general query on every field
\* except selectedAttributes and recordName.
QueryKey(f) ==
  IF UsesRecordHistory(f)
    THEN [initialFiltersState EXCEPT !.recordId = f.recordId]
    ELSE [f EXCEPT !.selectedAttributes = <<>>, !.recordName = Null]

\* -------------------------------------------------------- pagination state
initialPaginationState ==
  [pageNumber |-> 1, pageSize |-> DEFAULT_PAGE_SIZE,
   totalCount |-> 0, hasMoreRecords |-> FALSE]

\* JavaScript truthiness of a string | undefined cursor
Truthy(c) == c # Undefined /\ c # EmptyString

\* Map.prototype.set on the cursor cache
MapSet(m, k, v) == [x \in DOMAIN m \cup {k} |-> IF x = k THEN v ELSE m[x]]
EmptyMap == [x \in {} |-> Undefined]

\* The three pieces of state owned by useAuditPagination, as one value:
\* ps.pagination, ps.cookie (pagingCookieRef.current), ps.cache
\* (pagingCookieCacheRef.current), and ps.warned for the console.warn.
setPageJumpsUncached(ps, page) ==
  IF page = ps.pagination.pageNumber THEN [ps EXCEPT !.warned = FALSE]
  ELSE IF page = 1 THEN
    [ps EXCEPT !.pagination.pageNumber = 1, !.cookie = Undefined,
               !.warned = FALSE]
  ELSE IF page = ps.pagination.pageNumber + 1 THEN
    [ps EXCEPT !.pagination.pageNumber = page, !.warned = FALSE]
  ELSE IF page \in DOMAIN ps.cache /\ Truthy(ps.cache[page]) THEN
    [ps EXCEPT !.pagination.pageNumber = page, !.cookie = ps.cache[page],
               !.warned = FALSE]
  ELSE [ps EXCEPT !.pagination.pageNumber = page, !.warned = TRUE]

setPage(ps, page) ==
  IF page = ps.pagination.pageNumber THEN [ps EXCEPT !.warned = FALSE]
  ELSE IF page = 1 THEN
    [ps EXCEPT !.pagination.pageNumber = 1, !.cookie = Undefined,
               !.warned = FALSE]
  ELSE IF page = ps.pagination.pageNumber + 1 THEN
    [ps EXCEPT !.pagination.pageNumber = page, !.warned = FALSE]
  ELSE IF page \in DOMAIN ps.cache /\ Truthy(ps.cache[page]) THEN
    [ps EXCEPT !.pagination.pageNumber = page, !.cookie = ps.cache[page],
               !.warned = FALSE]
  ELSE [ps EXCEPT !.warned = TRUE]

setPageSize(ps, size) ==
  [ps EXCEPT !.pagination.pageSize = size, !.pagination.pageNumber = 1,
             !.cookie = Undefined, !.cache = EmptyMap, !.warned = FALSE]

resetPaginationKeepsCache(ps) ==
  [ps EXCEPT !.pagination = initialPaginationState, !.cookie = Undefined,
             !.warned = FALSE]

resetPaginationKeepsCookie(ps) ==
  [ps EXCEPT !.pagination = initialPaginationState,
             !.cache = EmptyMap, !.warned = FALSE]

resetPaginationKeepsPageSize(ps) ==
  [ps EXCEPT !.pagination = [initialPaginationState EXCEPT
                               !.pageSize = ps.pagination.pageSize],
             !.cookie = Undefined, !.cache = EmptyMap, !.warned = FALSE]

resetPagination(ps) ==
  [ps EXCEPT !.pagination = initialPaginationState, !.cookie = Undefined,
             !.cache = EmptyMap, !.warned = FALSE]

\* ------------------------------------------------------------ export idle
\* No remote detail call has been made for any entry
NoCalls == [e \in EntryIds |-> 0]

\* queryAllAuditLogs is not running: its locals as declared at its top
QaIdle ==
  [pc |-> "idle", caller |-> "none", filters |-> initialFiltersState,
   maxRecords |-> 0, available |-> 0, allEntries |-> <<>>, pageNumber |-> 1,
   pagingCookie |-> Undefined, hasMoreRecords |-> TRUE, totalCount |-> 0,
   requests |-> <<>>, answers |-> <<>>, faithful |-> TRUE]

\* useExport before any export: isExporting false, lastExport null
\* exportProgress: null (phase "none"), 'Fetching records...', 'Loading
\* change details: loaded of total...' or 'Generating CSV...'
Progress(phase, loaded, total) ==
  [phase |-> phase, loaded |-> loaded, total |-> total]

\* Besides the hook state: shouldIncludeDetails (includeDetails) and the
\* tabType of the running call, the detailsMap captured by exportData
\* (snapshot: its keys), exportDetailsMap on the tracked entries, the
\* entries to load (toLoad, the tracked ones first), the current chunk,
\* its fetches not yet settled (inflight, pending: the tracked ones) and
\* its results so far (batch), loadedCount; history: the outcome of each
\* tracked item, whether another item failed, whether a getAuditDetails
\* call rejected, the loaded counts of the progress messages of the detail
\* phase, and the numbers of getAuditDetails calls issued and settled.
ExIdle ==
  [pc |-> "idle", isExporting |-> FALSE, error |-> Null, lastExport |-> Null,
   exportProgress |-> Progress("none", 0, 0),
   includeDetails |-> FALSE, tabType |-> "details", snapshot |-> {},
   pending |-> {}, exports |-> 0,
   exportDetailsMap |-> [e \in {} |-> "none"], toLoad |-> 0, chunk |-> 0,
   inflight |-> 0, batch |-> [e \in {} |-> "none"], loadedCount |-> 0,
   ownOutcome |-> [e \in {} |-> "none"], othersFailed |-> FALSE,
   rejected |-> FALSE, reports |-> <<>>, started |-> 0, settled |-> 0]

\* A null reference, and a Map object: the load that built it and its
\* content
NullRef == [set |-> FALSE]
MapObject(run, map) == [set |-> TRUE, run |-> run, map |-> map]

\* The module state of the privilege service before any load, with the
\* loads (runs), label fetches (lruns) and loadPrivileges calls so far
PvIdle ==
  [privilegeCache |-> NullRef, privilegeCachePromise |-> 0,
   roleEditorLayoutCache |-> NullRef, roleEditorLayoutCachePromise |-> 0,
   runs |-> <<>>, lruns |-> <<>>, calls |-> <<>>, clears |-> 0]

\* Principals looked up and tables whose attributes are requested
PrincipalKeys ==
  {[type |-> "systemuser", id |-> "u1"], [type |-> "organization", id |-> "o1"]}
AttributeTables == {"contact"}

\* principalNameCache and attributeCache empty; per key the remote calls
\* made and in flight, and the names returned to the callers
LkIdle ==
  [principalNameCache |-> [k \in {} |-> ""],
   attributeCache |-> [t \in {} |-> ""],
   principalCalls |-> [k \in PrincipalKeys |-> 0],
   principalInflight |-> [k \in PrincipalKeys |-> 0],
   attributeCalls |-> [t \in AttributeTables |-> 0],
   attributeInflight |-> [t \in AttributeTables |-> 0],
   names |-> <<>>]

\* The columns the entry table sorts on, and the sort state the hook
\* starts with
SortColumns == {"createdOn", "operation", "action", "objectName", "userName"}
initialSortState == [column |-> "createdOn", direction |-> "desc"]

\* The updater setSort passes to setSortState
setSortToggles(prev, column) ==
  IF prev.column = column /\ prev.direction = "desc"
    THEN [column |-> column, direction |-> "asc"]
    ELSE [column |-> column, direction |-> "desc"]

setSort(prev, column) ==
  IF prev.column = column THEN
    IF prev.direction = "desc" THEN [column |-> column, direction |-> "asc"]
    ELSE IF prev.direction = "asc" THEN [column |-> Null, direction |-> Null]
    ELSE [column |-> column, direction |-> "desc"]
  ELSE [column |-> column, direction |-> "desc"]

\* ------------------------------------------------------------------ state
VARIABLES
  isConnected,            \* the hook's isConnected argument
  filters,                \* useReducer state of useAuditFilters
  pagination,             \* useState of useAuditPagination
  pagingCookieRef,        \* pagingCookieRef.current
  pagingCookieCacheRef,   \* pagingCookieCacheRef.current: page -> cursor
  entries,                \* number of entries displayed (entries.length)
  isLoading,
  error,
  detailsMap,             \* hook state: entry id -> details
  detailsCache,           \* module-level detailsCache of auditLogService
  isLoadingDetails,
  inflight,               \* page fetches awaiting the remote answer
  inflightDetails,        \* entry id -> detail fetches awaiting the answer
  nextFetchId,            \* history: number of the next page fetch
  filterChanges,          \* history: filter dispatches so far
  detailFetches,          \* history: detail fetches issued so far
  entriesFrom,            \* history: the fetch whose completion set entries
  completedSinceClear,    \* history: pages whose fetch completed since the
                          \*   cursor cache was last cleared
  cursorSinceClear,       \* history: those that completed with a cursor
  lastIssuedPage,         \* history: page of the last fetch issued (0: none)
  increasing,             \* history: fetches were issued for 1, then only
                          \*   for pages above the previous one
  lastOp,                 \* history: the hook operation that led to this state
  detailCalls,            \* history: entry id -> remote detail calls since
                          \*   the detail cache was last cleared
  qa,                     \* the running queryAllAuditLogs call
  ex,                     \* the running exportData call of useExport
  pv,                     \* module state of the privilege service
  lk,                     \* principal-name and attribute caches
  sort                    \* useState of useAuditSorting

progVars == <<isConnected, filters, pagination, pagingCookieRef,
              pagingCookieCacheRef, entries, isLoading, error, detailsMap,
              detailsCache, isLoadingDetails, inflight, inflightDetails>>
histVars == <<nextFetchId, filterChanges, detailFetches, entriesFrom,
              completedSinceClear, cursorSinceClear, lastIssuedPage,
              increasing, lastOp, detailCalls>>
svcVars == <<qa, ex, pv, lk>>
vars == <<progVars, histVars, svcVars, sort>>

\* lastOp: op names the handler; page is its page argument (for a response:
\* the page the fetch had requested; for a filter operation: the page shown
\* when it was called); cookie is the cursor a response carried; id the
\* fetch a response answered; threw whether fetchAuditLogs took its catch
\* branch; warned whether setPage logged its warning; failed whether the
\* remote call the response answers was rejected.
Op(name, page, cookie, id, threw, warned) ==
  [op |-> name, page |-> page, cookie |-> cookie, id |-> id,
   threw |-> threw, warned |-> warned, failed |-> FALSE]

Init ==
  /\ isConnected = FALSE
  /\ filters = initialFiltersState
  /\ pagination = initialPaginationState
  /\ pagingCookieRef = Undefined
  /\ pagingCookieCacheRef = EmptyMap
  /\ entries = 0
  /\ isLoading = FALSE
  /\ error = Null
  /\ detailsMap = [x \in {} |-> "none"]
  /\ detailsCache = [x \in {} |-> "none"]
  /\ isLoadingDetails = FALSE
  /\ inflight = {}
  /\ inflightDetails = [e \in EntryIds |-> 0]
  /\ nextFetchId = 1
  /\ filterChanges = 0
  /\ detailFetches = 0
  /\ entriesFrom = 0
  /\ completedSinceClear = {}
  /\ cursorSinceClear = {}
  /\ lastIssuedPage = 0
  /\ increasing = TRUE
  /\ lastOp = Op("init", 0, Undefined, 0, FALSE, FALSE)
  /\ detailCalls = NoCalls
  /\ qa = QaIdle
  /\ ex = ExIdle
  /\ pv = PvIdle
  /\ lk = LkIdle
  /\ sort = initialSortState

\* --------------------------------------------------------- remote service
\* The cursor the service hands out after page f.pageNumber of the query of
\* request f; v distinguishes the cursors of one page as the audit trail
\* grows between two fetches.
CookieOf(f, v) ==
  [set |-> TRUE, text |-> TRUE, q |-> QueryKey(f.filters),
   pageSize |-> f.pageSize, page |-> f.pageNumber, v |-> v]

\* What fetchXmlQuery can answer to request f: a rejection, nothing, a value
\* whose rows are not a list, or an envelope: a full page with a cursor, a
\* last, partial page without one, or no rows at all; the more-records flag
\* and the total count (0: omitted) are supplied or left out.
Shape(kind, rows, rawCookie, v, moreRecords, totalRecordCount) ==
  [kind |-> kind, rows |-> rows, dropped |-> 0, rawCookie |-> rawCookie,
   v |-> v, moreRecords |-> moreRecords,
   totalRecordCount |-> totalRecordCount]

Responses(f) ==
  { Shape(k, 0, "absent", 1, "absent", 0) :
      k \in {"reject", "null", "malformed"} }
  \cup { Shape("ok", f.pageSize, "present", v, m, ReportedTotal) :
           v \in 1..NumVersions, m \in {"absent", "true"} }
  \cup { Shape("ok", PartialRows, c, 1, m, t) :
           c \in {"absent", "empty"}, m \in {"absent", "false"},
           t \in {0, ReportedTotal} }
  \cup { Shape("ok", 0, "present", 1, "absent", 0) }

EmptyPage ==
  [entries |-> 0, totalCount |-> 0, hasMoreRecords |-> FALSE,
   pagingCookie |-> Undefined, threw |-> FALSE]

\* pagingCookie of a response: decoded only when the raw cursor is truthy
DecodedCookie(f, r) ==
  IF r.rawCookie = "present" THEN CookieOf(f, r.v) ELSE Undefined

HasMoreFromEntries(f, r) ==
  IF r.moreRecords = "absent" THEN r.rows - r.dropped >= f.pageSize
  ELSE r.moreRecords = "true"

HasMore(f, r) ==
  IF r.moreRecords = "absent" THEN r.rows >= f.pageSize
  ELSE r.moreRecords = "true"

\* The total of a page of n entries when the service reports none
EstimateTotalFromPageSize(f, n, more) ==
  IF more THEN f.pageSize * (f.pageNumber + 1)
  ELSE n + (f.pageNumber - 1) * f.pageSize

EstimateTotal(f, n, more) ==
  IF more THEN n * (f.pageNumber + 1)
  ELSE n + (f.pageNumber - 1) * f.pageSize

queryAuditLogsRethrows(f, r) ==
  IF r.kind = "reject" THEN [EmptyPage EXCEPT !.threw = TRUE] ELSE EmptyPage

queryAuditLogs(f, r) ==
  IF r.kind # "ok" THEN EmptyPage
  ELSE IF r.rows = 0 THEN
    [EmptyPage EXCEPT !.totalCount = r.totalRecordCount]
  ELSE
    LET n == r.rows - r.dropped
        more == HasMore(f, r)
    IN [entries |-> n,
        totalCount |->
          IF r.totalRecordCount # 0 THEN r.totalRecordCount
          ELSE EstimateTotal(f, n, more),
        hasMoreRecords |-> more,
        pagingCookie |-> DecodedCookie(f, r),
        threw |-> FALSE]

getRecordChangeHistory(f, r) ==
  IF r.kind \in {"reject", "null"} THEN EmptyPage
  ELSE IF r.kind = "malformed" THEN [EmptyPage EXCEPT !.threw = TRUE]
  ELSE IF r.rows = 0 THEN
    [EmptyPage EXCEPT !.totalCount = r.totalRecordCount]
  ELSE
    LET n == r.rows - r.dropped
    IN [entries |-> n,
        totalCount |->
          IF r.totalRecordCount # 0 THEN r.totalRecordCount ELSE n,
        hasMoreRecords |-> HasMore(f, r),
        pagingCookie |-> DecodedCookie(f, r),
        threw |-> FALSE]

\* ------------------------------------------------------------- page fetch
\* The request fetchAuditLogs sends: the filters and pagination of the
\* render that created the callback, and the cursor the ref holds when it
\* is called.
Request(id, f, pag, cookie) ==
  [id |-> id, filters |-> f, pageNumber |-> pag.pageNumber,
   pageSize |-> pag.pageSize, pagingCookie |-> cookie]

\* fetchAuditLogs up to its await, when run = TRUE and connected' holds.
FetchStart(run, connected, f, pag, cookie) ==
  IF run /\ connected THEN
    /\ nextFetchId + detailFetches <= MaxFetches
    /\ Cardinality(inflight) < MaxInFlight
    /\ inflight' = inflight \cup {Request(nextFetchId, f, pag, cookie)}
    /\ isLoading' = TRUE
    /\ error' = Null
    /\ nextFetchId' = nextFetchId + 1
    /\ lastIssuedPage' = pag.pageNumber
    /\ increasing' = (/\ increasing
                      /\ pag.pageNumber > lastIssuedPage
                      /\ (lastIssuedPage = 0 => pag.pageNumber = 1))
  ELSE UNCHANGED <<inflight, isLoading, error, nextFetchId, lastIssuedPage,
                   increasing>>

\* The key under which the cursor of a completed fetch is cached: the
\* pagination of the closure that issued the fetch, not the current one.
CacheKeyFromCurrentPage(f, pag) == pag.pageNumber + 1
CacheKeySamePage(f, pag) == f.pageNumber
CacheKeySkipsOne(f, pag) == f.pageNumber + 2
CacheKey(f, pag) == f.pageNumber + 1

\* The cache after a fetch that returned cursor c
RecordCookie(cache, key, c) == MapSet(cache, key, c)

\* fetchAuditLogs after its await: request f is answered with r.
FetchDone(f, r) ==
  LET result == IF UsesRecordHistory(f.filters)
                  THEN getRecordChangeHistory(f, r)
                  ELSE queryAuditLogs(f, r)
  IN
  /\ inflight' = inflight \ {f}
  /\ isLoading' = FALSE
  /\ entries' = result.entries
  /\ entriesFrom' = f.id
  /\ IF result.threw THEN
       /\ error' = "Failed to load audit logs"
       /\ UNCHANGED <<pagingCookieRef, pagingCookieCacheRef, pagination,
                      cursorSinceClear>>
     ELSE
       /\ error' = error
       /\ pagingCookieRef' = result.pagingCookie
       /\ pagingCookieCacheRef' =
            IF Truthy(result.pagingCookie)
              THEN RecordCookie(pagingCookieCacheRef, CacheKey(f, pagination),
                                result.pagingCookie)
              ELSE pagingCookieCacheRef
       /\ pagination' = [pagination EXCEPT
                           !.totalCount = result.totalCount,
                           !.hasMoreRecords = result.hasMoreRecords]
       /\ cursorSinceClear' =
            IF Truthy(result.pagingCookie)
              THEN cursorSinceClear \cup {f.pageNumber}
              ELSE cursorSinceClear
  /\ completedSinceClear' = completedSinceClear \cup {f.pageNumber}
  /\ lastOp' = [Op("response", f.pageNumber, result.pagingCookie, f.id,
                    result.threw, FALSE) EXCEPT !.failed = r.kind = "reject"]
  /\ UNCHANGED <<isConnected, filters, detailsMap, detailsCache,
                 isLoadingDetails, inflightDetails, nextFetchId,
                 filterChanges, detailFetches, lastIssuedPage, increasing>>
  /\ UNCHANGED <<detailCalls, sort, svcVars>>

Response == \E f \in inflight : \E r \in Responses(f) : FetchDone(f, r)

\* canNavigateToPage, as exposed by the hook in the current render
canNavigateToPageIgnoresCache(page) ==
  IF page = 1 THEN TRUE
  ELSE IF page = pagination.pageNumber + 1 /\ Truthy(pagingCookieRef) THEN TRUE
  ELSE FALSE

canNavigateToPage(page) ==
  IF page = 1 THEN TRUE
  ELSE IF page = pagination.pageNumber + 1 /\ Truthy(pagingCookieRef) THEN TRUE
  ELSE IF page \in DOMAIN pagingCookieCacheRef THEN TRUE
  ELSE FALSE

\* ---------------------------------------------------------------- handlers
\* The pagination control and the entry rows are rendered only while the
\* explorer is connected (AuditLogExplorer returns its "not connected"
\* screen otherwise), so setPage, setPageSize and loadDetails are called
\* only then; the filter setters are also called before, by the effects
\* that prepare the filters of the selected tab.
PS == [pagination |-> pagination, cookie |-> pagingCookieRef,
       cache |-> pagingCookieCacheRef, warned |-> FALSE]

\* fetchAuditLogs is re-created, and the effect re-run, when one of its
\* dependencies changed: isConnected, filters (a dispatch always yields a
\* new object), pagination.pageNumber, pagination.pageSize.
PageDepsChanged(pag) ==
  pag.pageNumber # pagination.pageNumber \/ pag.pageSize # pagination.pageSize

\* The isConnected argument turns true (the host connection is up and the
\* filters are ready): the effect issues the first fetch.
Connect ==
  /\ ~isConnected
  /\ isConnected' = TRUE
  /\ FetchStart(TRUE, TRUE, filters, pagination, pagingCookieRef)
  /\ lastOp' = Op("connect", 0, Undefined, 0, FALSE, FALSE)
  /\ UNCHANGED <<filters, pagination, pagingCookieRef, pagingCookieCacheRef,
                 entries, detailsMap, detailsCache, isLoadingDetails,
                 inflightDetails, filterChanges, detailFetches, entriesFrom,
                 completedSinceClear, cursorSinceClear>>
  /\ UNCHANGED <<detailCalls, sort, svcVars>>

SetPage(page) ==
  LET ps == setPage(PS, page) IN
  /\ isConnected
  /\ pagination' = ps.pagination
  /\ pagingCookieRef' = ps.cookie
  /\ pagingCookieCacheRef' = ps.cache
  /\ FetchStart(PageDepsChanged(ps.pagination), isConnected, filters,
                ps.pagination, ps.cookie)
  /\ lastOp' = Op("setPage", page, Undefined, 0, FALSE, ps.warned)
  /\ UNCHANGED <<isConnected, filters, entries, detailsMap, detailsCache,
                 isLoadingDetails, inflightDetails, filterChanges,
                 detailFetches, entriesFrom, completedSinceClear,
                 cursorSinceClear>>
  /\ UNCHANGED <<detailCalls, sort, svcVars>>

SetPageSize(size) ==
  LET ps == setPageSize(PS, size) IN
  /\ isConnected
  /\ pagination' = ps.pagination
  /\ pagingCookieRef' = ps.cookie
  /\ pagingCookieCacheRef' = ps.cache
  /\ completedSinceClear' = {}
  /\ cursorSinceClear' = {}
  /\ FetchStart(PageDepsChanged(ps.pagination), isConnected, filters,
                ps.pagination, ps.cookie)
  /\ lastOp' = Op("setPageSize", pagination.pageNumber, Undefined, 0, FALSE,
                  FALSE)
  /\ UNCHANGED <<isConnected, filters, entries, detailsMap, detailsCache,
                 isLoadingDetails, inflightDetails, filterChanges,
                 detailFetches, entriesFrom>>
  /\ UNCHANGED <<detailCalls, sort, svcVars>>

\* refresh is fetchAuditLogs itself: it returns at once when not connected.
Refresh ==
  /\ FetchStart(TRUE, isConnected, filters, pagination, pagingCookieRef)
  /\ lastOp' = Op("refresh", 0, Undefined, 0, FALSE, FALSE)
  /\ UNCHANGED <<isConnected, filters, pagination, pagingCookieRef,
                 pagingCookieCacheRef, entries, detailsMap, detailsCache,
                 isLoadingDetails, inflightDetails, filterChanges,
                 detailFetches, entriesFrom, completedSinceClear,
                 cursorSinceClear>>
  /\ UNCHANGED <<detailCalls, sort, svcVars>>

\* ---------------------------------------------------------- filter setters
NoDetails == [x \in {} |-> "none"]

\* handleFilterChange of useAuditLogs, on the state it touches
handleFilterChange(h) ==
  [ps |-> resetPagination(h.ps), detailsMap |-> NoDetails,
   detailsCache |-> NoDetails]

\* A setter of useAuditFilters: dispatch, then onFilterChange (which is
\* handleFilterChange) when notify holds; clearDetails is the second
\* clearing of the details that the setTables wrapper of useAuditLogs
\* adds; then the render and the effect.
Dispatch(name, type, payload, notify, clearDetails) ==
  LET f == filterReducer(filters, type, payload)
      h0 == [ps |-> PS, detailsMap |-> detailsMap,
             detailsCache |-> detailsCache]
      h1 == IF notify THEN handleFilterChange(h0) ELSE h0
      h == IF clearDetails
             THEN [h1 EXCEPT !.detailsMap = NoDetails,
                             !.detailsCache = NoDetails]
             ELSE h1
  IN
  /\ filterChanges < MaxFilterChanges
  /\ filterChanges' = filterChanges + 1
  /\ filters' = f
  /\ pagination' = h.ps.pagination
  /\ pagingCookieRef' = h.ps.cookie
  /\ pagingCookieCacheRef' = h.ps.cache
  /\ detailsMap' = h.detailsMap
  /\ detailsCache' = h.detailsCache
  /\ completedSinceClear' = IF notify THEN {} ELSE completedSinceClear
  /\ cursorSinceClear' = IF notify THEN {} ELSE cursorSinceClear
  /\ FetchStart(TRUE, isConnected, f, h.ps.pagination, h.ps.cookie)
  /\ lastOp' = Op(name, pagination.pageNumber, Undefined, 0, FALSE, FALSE)
  /\ UNCHANGED <<isConnected, entries, isLoadingDetails, inflightDetails,
                 detailFetches, entriesFrom>>
  /\ detailCalls' = IF notify \/ clearDetails THEN NoCalls ELSE detailCalls
  /\ UNCHANGED <<sort, svcVars>>

SetTables(logicalNames) ==
  Dispatch("setTables", "SET_TABLES", logicalNames, TRUE, TRUE)

SetRecord(id) ==
  Dispatch("filterChange", "SET_RECORD",
           [id |-> id, name |-> IF id = Null THEN Null ELSE "Record"],
           TRUE, FALSE)

SetSelectedAttributes(attributes) ==
  Dispatch("setSelectedAttributes", "SET_ATTRIBUTES", attributes, FALSE,
           FALSE)

SetOperations(operations) ==
  Dispatch("filterChange", "SET_OPERATIONS", operations, TRUE, FALSE)

SetActions(actions) ==
  Dispatch("filterChange", "SET_ACTIONS", actions, TRUE, FALSE)

SetFromDate(date) ==
  Dispatch("filterChange", "SET_FROM_DATE", date, TRUE, FALSE)

SetToDate(date) ==
  Dispatch("filterChange", "SET_TO_DATE", date, TRUE, FALSE)

SetUsers(users) ==
  Dispatch("filterChange", "SET_USERS", users, TRUE, FALSE)

SetSecurityRoles(roles) ==
  Dispatch("filterChange", "SET_SECURITY_ROLES", roles, TRUE, FALSE)

ClearFilters ==
  Dispatch("filterChange", "CLEAR_FILTERS", Null, TRUE, FALSE)

\* ------------------------------------------------------------ audit details
\* The entity name loadDetails resolves: its argument, else the single
\* selected table, else the objectTypeCode of the entry found in entries
\* ("" when no entry is found or the event is organization-level).
ResolvedEntityName(entityLogicalName, objectTypeCode) ==
  IF entityLogicalName # Null THEN entityLogicalName
  ELSE IF Len(filters.tableLogicalNames) = 1 THEN filters.tableLogicalNames[1]
  ELSE objectTypeCode

\* getAuditDetails: what it leaves in detailsCache, what it returns and
\* whether it rejects, by the outcome of the remote call ("details":
\* parsed details; "noResponse": an empty response; "error": the call or a
\* parser threw).
getAuditDetailsRethrows(cache, auditId, outcome) ==
  CASE outcome = "details" ->
         [cache |-> MapSet(cache, auditId, "details"), details |-> "details",
          threw |-> FALSE]
    [] outcome = "noResponse" ->
         [cache |-> cache, details |-> "empty", threw |-> FALSE]
    [] OTHER ->
         [cache |-> cache, details |-> "none", threw |-> TRUE]

getAuditDetailsForgetsFailure(cache, auditId, outcome) ==
  CASE outcome = "details" ->
         [cache |-> MapSet(cache, auditId, "details"), details |-> "details",
          threw |-> FALSE]
    [] OTHER -> [cache |-> cache, details |-> "empty", threw |-> FALSE]

getAuditDetails(cache, auditId, outcome) ==
  CASE outcome = "details" ->
         [cache |-> MapSet(cache, auditId, "details"), details |-> "details",
          threw |-> FALSE]
    [] outcome = "noResponse" ->
         [cache |-> cache, details |-> "empty", threw |-> FALSE]
    [] OTHER ->
         [cache |-> MapSet(cache, auditId, "empty"), details |-> "empty",
          threw |-> FALSE]

LoadDetailsOp == Op("loadDetails", 0, Undefined, 0, FALSE, FALSE)

LoadDetails(entryId, entityLogicalName, objectTypeCode) ==
  /\ isConnected
  /\ (entries = 0 => objectTypeCode = "")
  /\ IF entryId \in DOMAIN detailsMap THEN
       UNCHANGED <<detailsMap, isLoadingDetails, inflightDetails,
                   detailFetches, lastOp, detailCalls>>
     ELSE IF entryId \in DOMAIN detailsCache THEN
       /\ detailsMap' = MapSet(detailsMap, entryId, detailsCache[entryId])
       /\ lastOp' = LoadDetailsOp
       /\ UNCHANGED <<isLoadingDetails, inflightDetails, detailFetches,
                      detailCalls>>
     ELSE IF ResolvedEntityName(entityLogicalName, objectTypeCode) = "" THEN
       UNCHANGED <<detailsMap, isLoadingDetails, inflightDetails,
                   detailFetches, lastOp, detailCalls>>
     ELSE
       /\ detailFetches < MaxDetailFetches
       /\ nextFetchId + detailFetches <= MaxFetches
       /\ detailFetches' = detailFetches + 1
       /\ isLoadingDetails' = TRUE
       /\ inflightDetails' =
            [inflightDetails EXCEPT ![entryId] = inflightDetails[entryId] + 1]
       /\ detailCalls' = [detailCalls EXCEPT ![entryId] = @ + 1]
       /\ lastOp' = LoadDetailsOp
       /\ UNCHANGED detailsMap
  /\ UNCHANGED <<isConnected, filters, pagination, pagingCookieRef,
                 pagingCookieCacheRef, entries, isLoading, error,
                 detailsCache, inflight, nextFetchId, filterChanges,
                 entriesFrom, completedSinceClear, cursorSinceClear,
                 lastIssuedPage, increasing>>
  /\ UNCHANGED <<sort, svcVars>>

DetailsDone(entryId, outcome) ==
  LET got == getAuditDetails(detailsCache, entryId, outcome) IN
  /\ inflightDetails[entryId] > 0
  /\ inflightDetails' =
       [inflightDetails EXCEPT ![entryId] = inflightDetails[entryId] - 1]
  /\ detailsCache' = got.cache
  /\ detailsMap' = IF got.threw THEN detailsMap
                   ELSE MapSet(detailsMap, entryId, got.details)
  /\ isLoadingDetails' = FALSE
  /\ lastOp' = [Op("detailsResponse", 0, Undefined, 0, FALSE, FALSE)
                  EXCEPT !.failed = outcome = "error"]
  /\ UNCHANGED <<isConnected, filters, pagination, pagingCookieRef,
                 pagingCookieCacheRef, entries, isLoading, error, inflight,
                 nextFetchId, filterChanges, detailFetches, entriesFrom,
                 completedSinceClear, cursorSinceClear, lastIssuedPage,
                 increasing>>
  /\ UNCHANGED <<detailCalls, sort, svcVars>>

\* ------------------------------------------------------------ specification
Next ==
  \/ Connect
  \/ \E page \in Pages : SetPage(page)
  \/ \E size \in PageSizes : SetPageSize(size)
  \/ Refresh
  \/ \E names \in TableLists : SetTables(names)
  \/ \E id \in RecordIds : SetRecord(id)
  \/ \E attributes \in {<<>>, <<"name">>} : SetSelectedAttributes(attributes)
  \/ \E operations \in {<<2>>} : SetOperations(operations)
  \/ \E actions \in {<<>>} : SetActions(actions)
  \/ \E date \in {Null} : SetFromDate(date)
  \/ \E date \in {Null} : SetToDate(date)
  \/ \E users \in {<<>>} : SetUsers(users)
  \/ \E roles \in {<<>>} : SetSecurityRoles(roles)
  \/ ClearFilters
  \/ Response
  \/ \E e \in EntryIds, n \in EntityNames, otc \in {"", "contact"} :
       LoadDetails(e, n, otc)
  \/ \E e \in EntryIds, o \in {"details", "noResponse", "error"} :
       DetailsDone(e, o)

Spec == Init /\ [][Next]_vars

TypeOK ==
  /\ isConnected \in BOOLEAN
  /\ pagination.pageNumber \in 1..MaxPage
  /\ pagination.pageSize \in PageSizes
  /\ DOMAIN pagingCookieCacheRef \subseteq 2..(MaxPage + 1)
  /\ Cardinality(inflight) <= MaxInFlight
  /\ nextFetchId <= MaxFetches + 1

\* ------------------------------------------------------- queryAllAuditLogs
\* Page size of the bulk fetch and the cap useExport passes when details
\* are included
ExportPageSize == 250
MAX_RECORDS_WITH_DETAILS == 5000

\* maxRecords arguments (0: unlimited) and numbers of audit records that
\* match the filters at the source
MaxRecordsValues == {0, 1, 2, 300, 500}
Availables == {0, 100, 500, 600}
\* Records that match the filters when the export button is used
ExportAvailables == {0, 120}

\* const batchSize = 50 of exportData
batchSize == 50

Min(a, b) == IF a < b THEN a ELSE b

\* allEntries is kept as the list of slices pushed: n entries, the first n
\* of the page fetched as page number `page`.
RECURSIVE Total(_)
Total(slices) ==
  IF slices = <<>> THEN 0 ELSE Head(slices).n + Total(Tail(slices))

\* The request of the current iteration: the pagination built in the loop
QaRequest(q) ==
  Request(0, q.filters,
          [pageNumber |-> q.pageNumber, pageSize |-> ExportPageSize],
          q.pagingCookie)

\* What a source holding q.available matching records answers to the
\* request for page q.pageNumber: the rows of that page, a cursor when
\* there are rows, the more-records flag exact or left out.
SourcePage(q) ==
  LET before == ExportPageSize * (q.pageNumber - 1)
      rows == IF q.available > before
                THEN Min(ExportPageSize, q.available - before) ELSE 0
      flag == IF q.available > before + rows THEN "true" ELSE "false"
  IN { Shape("ok", rows, IF rows > 0 THEN "present" ELSE "absent", 1, m,
             q.available) : m \in {"absent", flag} }

\* Every answer fetchXmlQuery can give: the source's page, a failure, or a
\* one-row page that announces more records.
QaResponses(q) ==
  SourcePage(q)
  \cup { Shape(k, 0, "absent", 1, "absent", 0) :
           k \in {"reject", "null", "malformed"} }
  \cup { Shape("ok", 1, "present", 1, "true", 0) }

\* The top of the while loop, up to the await of queryAuditLogs: leave the
\* loop when hasMoreRecords is false or the cap is reached, else send the
\* request for the next page.
QaLoopIssuesAtCap(q) ==
  IF q.hasMoreRecords
       /\ ~(q.maxRecords > 0 /\ Total(q.allEntries) > q.maxRecords)
    THEN [q EXCEPT !.pc = "await",
                   !.requests = Append(@, [pageNumber |-> q.pageNumber,
                                           pagingCookie |-> q.pagingCookie])]
    ELSE [q EXCEPT !.pc = "done"]

QaLoop(q) ==
  IF q.hasMoreRecords
       /\ ~(q.maxRecords > 0 /\ Total(q.allEntries) >= q.maxRecords)
    THEN [q EXCEPT !.pc = "await",
                   !.requests = Append(@, [pageNumber |-> q.pageNumber,
                                           pagingCookie |-> q.pagingCookie])]
    ELSE [q EXCEPT !.pc = "done"]

\* The entries pushed from a page of n entries: all of them, or the first
\* maxRecords - allEntries.length when a cap is set
QaSliceWholePage(q, n) == n

QaSlice(q, n) ==
  IF q.maxRecords > 0 THEN Min(q.maxRecords - Total(q.allEntries), n) ELSE n

\* The loop body after the await, on answer r, and the next loop top
QaSameCursor(q, result) == q.pagingCookie

QaNextCursor(q, result) == result.pagingCookie

QaStep(q, r) ==
  LET result == queryAuditLogs(QaRequest(q), r)
      seen == [q EXCEPT !.answers = Append(@, [response |-> r,
                                               result |-> result]),
                        !.faithful = @ /\ r \in SourcePage(q)]
  IN IF result.entries = 0 THEN [seen EXCEPT !.pc = "done"]
     ELSE QaLoop([seen EXCEPT
                    !.allEntries = Append(@, [page |-> q.pageNumber,
                                              n |-> QaSlice(q, result.entries)]),
                    !.totalCount = result.totalCount,
                    !.hasMoreRecords = result.hasMoreRecords,
                    !.pagingCookie = QaNextCursor(q, result),
                    !.pageNumber = @ + 1])

\* The value queryAllAuditLogs resolves with once the loop is left
QaResult(q) == [entries |-> q.allEntries, totalCount |-> q.totalCount]

\* queryAllAuditLogs(filters, maxRecords) is called; `available` is what
\* the source holds for these filters.
queryAllAuditLogs(caller, f, maxRecords, available) ==
  QaLoop([QaIdle EXCEPT !.caller = caller, !.filters = f,
                        !.maxRecords = maxRecords,
                        !.available = available])

\* ------------------------------------------------------------- exportData
hookPageVars == <<isConnected, filters, pagination, pagingCookieRef,
                  pagingCookieCacheRef, entries, isLoading, error, inflight,
                  nextFetchId, filterChanges, entriesFrom,
                  completedSinceClear, cursorSinceClear, lastIssuedPage,
                  increasing>>
hookDetailVars == <<detailsMap, isLoadingDetails, inflightDetails,
                    detailFetches, lastOp>>

\* The entries of EntryIds that a non-empty result of queryAllAuditLogs
\* holds: the tracked entry is the first record that matches the filters.
IdsIn(q) == IF Total(q.allEntries) > 0 THEN EntryIds ELSE {}

\* exportData after queryAllAuditLogs returned q: "No data to export", or
\* the getAuditDetails calls for the entries absent from the detailsMap
\* captured when exportData was created, or straight to exportAuditLogs.
ExportLoadsAll(x, q) == IdsIn(q)

ExportToLoad(x, q) == IdsIn(q) \ x.snapshot

\* entriesToLoad.length: the entries of the result without the ones that
\* the captured detailsMap holds
ExportToLoadCount(x, q) ==
  Total(q.allEntries) - Cardinality(IdsIn(q) \cap x.snapshot)

\* batch.length of chunk k: entriesToLoad.slice(i, i + batchSize) with
\* i = (k - 1) * batchSize
BatchLengthAll(x, k) == x.toLoad - (k - 1) * batchSize

BatchLength(x, k) == Min(batchSize, x.toLoad - (k - 1) * batchSize)

\* One turn of the batch loop up to its await: every getAuditDetails call
\* of chunk k is issued. The tracked entries are the first of entriesToLoad.
StartBatch(x, k, tracked) ==
  [x EXCEPT !.chunk = k, !.inflight = BatchLength(x, k),
            !.started = @ + BatchLength(x, k),
            !.pending = IF k = 1 THEN tracked ELSE {},
            !.batch = NoDetails]

\* executeParallel resolved for chunk k: the results go into
\* exportDetailsMap, loadedCount and the progress message are updated, and
\* the loop goes on with the next chunk or ends before exportAuditLogs.
FinishBatch(x) ==
  LET loaded == x.loadedCount + BatchLength(x, x.chunk)
      y == [x EXCEPT !.exportDetailsMap =
                       [e \in DOMAIN x.exportDetailsMap \cup DOMAIN x.batch |->
                          IF e \in DOMAIN x.batch THEN x.batch[e]
                          ELSE x.exportDetailsMap[e]],
                     !.loadedCount = loaded,
                     !.exportProgress = Progress("details", loaded, x.toLoad),
                     !.reports = Append(@, loaded),
                     !.inflight = 0, !.pending = {}, !.batch = NoDetails]
  IN IF x.chunk * batchSize < x.toLoad
       THEN StartBatch(y, x.chunk + 1, {})
       ELSE [y EXCEPT !.pc = "saving",
                      !.exportProgress = Progress("generating", 0, 0)]

\* One promise of detailsPromises settled with `details`
ExportItemSettled(x) ==
  IF x.inflight = 1 THEN FinishBatch([x EXCEPT !.settled = @ + 1])
  ELSE [x EXCEPT !.inflight = @ - 1, !.settled = @ + 1]

ExportAfterQueryNoFinally(x, q) ==
  IF Total(q.allEntries) = 0 THEN
    [x EXCEPT !.pc = "done", !.lastExport = "noData"]
  ELSE IF x.includeDetails /\ ExportToLoadCount(x, q) > 0 THEN
    StartBatch([x EXCEPT !.pc = "details",
                         !.toLoad = ExportToLoadCount(x, q),
                         !.exportProgress =
                           Progress("details", 0, ExportToLoadCount(x, q))],
               1, ExportToLoad(x, q))
  ELSE [x EXCEPT !.pc = "saving",
                 !.exportProgress = Progress("generating", 0, 0)]

ExportAfterQuery(x, q) ==
  IF Total(q.allEntries) = 0 THEN
    [x EXCEPT !.pc = "done", !.isExporting = FALSE, !.lastExport = "noData",
              !.exportProgress = Progress("none", 0, 0)]
  ELSE IF x.includeDetails /\ ExportToLoadCount(x, q) > 0 THEN
    StartBatch([x EXCEPT !.pc = "details",
                         !.toLoad = ExportToLoadCount(x, q),
                         !.exportProgress =
                           Progress("details", 0, ExportToLoadCount(x, q))],
               1, ExportToLoad(x, q))
  ELSE [x EXCEPT !.pc = "saving",
                 !.exportProgress = Progress("generating", 0, 0)]

\* queryAllAuditLogs as a function of its arguments
QueryAllCall(maxRecords, available) ==
  /\ qa.pc = "idle"
  /\ ex.pc = "idle"
  /\ qa' = queryAllAuditLogs("direct", filters, maxRecords, available)
  /\ UNCHANGED <<hookPageVars, hookDetailVars, detailsCache, detailCalls,
                 ex>>
  /\ UNCHANGED <<pv, lk, sort>>

\* exportData up to its first await. The export button is enabled while
\* entries are shown and no export is running.
ExportData(includeDetails, tabType, available) ==
  LET shouldIncludeDetails == IF tabType = "access" THEN FALSE
                              ELSE includeDetails
      maxRecords == IF shouldIncludeDetails THEN MAX_RECORDS_WITH_DETAILS
                    ELSE 0
  IN
  /\ isConnected
  /\ entries > 0
  /\ ~ex.isExporting
  /\ qa.caller # "direct"
  /\ ex.exports < MaxExports
  /\ qa' = queryAllAuditLogs("export", filters, maxRecords, available)
  /\ ex' = [ExIdle EXCEPT !.pc = "fetching", !.isExporting = TRUE,
                          !.error = Null, !.lastExport = ex.lastExport,
                          !.includeDetails = shouldIncludeDetails,
                          !.tabType = tabType,
                          !.exportProgress = Progress("fetching", 0, 0),
                          !.snapshot = DOMAIN detailsMap,
                          !.exportDetailsMap = detailsMap,
                          !.exports = ex.exports + 1]
  /\ UNCHANGED <<hookPageVars, hookDetailVars, detailsCache, detailCalls>>
  /\ UNCHANGED <<pv, lk, sort>>

\* The remote answer to the page request of queryAllAuditLogs; when that
\* ends the loop, exportData continues up to its next await.
QueryAllAnswer(r) ==
  LET q == QaStep(qa, r)
      x == IF q.pc = "done" /\ q.caller = "export"
             THEN ExportAfterQuery(ex, q) ELSE ex
  IN
  /\ qa.pc = "await"
  /\ q.pc = "await" => Len(q.requests) <= MaxExportPages
  /\ qa' = q
  /\ ex' = x
  /\ detailCalls' = [e \in EntryIds |->
                       IF e \in x.pending THEN detailCalls[e] + 1
                       ELSE detailCalls[e]]
  /\ UNCHANGED <<hookPageVars, hookDetailVars, detailsCache>>
  /\ UNCHANGED <<pv, lk, sort>>

\* The result of one promise of detailsPromises: what getAuditDetails
\* resolved with, or [] from the catch around it when it rejected
BatchItem(got) == IF got.threw THEN "empty" ELSE got.details

\* The remote answer to the getAuditDetails call of the export for a
\* tracked entry
ExportDetailsDone(entryId, outcome) ==
  LET got == getAuditDetails(detailsCache, entryId, outcome)
      x == [ex EXCEPT !.pending = @ \ {entryId},
                      !.batch = MapSet(@, entryId, BatchItem(got)),
                      !.ownOutcome = MapSet(@, entryId, outcome),
                      !.rejected = @ \/ got.threw]
  IN
  /\ ex.pc = "details"
  /\ entryId \in ex.pending
  /\ detailsCache' = got.cache
  /\ ex' = ExportItemSettled(x)
  /\ UNCHANGED <<hookPageVars, hookDetailVars, detailCalls, qa>>
  /\ UNCHANGED <<pv, lk, sort>>

\* The remote answer to the getAuditDetails call of the export for one of
\* the other entries of the current chunk
ExportOtherDetailsDone(outcome) ==
  LET got == getAuditDetails(NoDetails, "other", outcome)
      x == [ex EXCEPT !.othersFailed = @ \/ BatchItem(got) = "empty",
                      !.rejected = @ \/ got.threw]
  IN
  /\ ex.pc = "details"
  /\ ex.inflight > Cardinality(ex.pending)
  /\ ex' = ExportItemSettled(x)
  /\ UNCHANGED <<hookPageVars, hookDetailVars, detailsCache, detailCalls,
                 qa>>
  /\ UNCHANGED <<pv, lk, sort>>

\* exportAuditLogs settles: lastExport is set, error too on a failure
ExportSaved(success) ==
  /\ ex.pc = "saving"
  /\ ex' = [ex EXCEPT !.pc = "done", !.isExporting = FALSE,
                      !.lastExport = IF success THEN "success" ELSE "failed",
                      !.error = IF success THEN Null ELSE "Export failed",
                      !.exportProgress = Progress("none", 0, 0)]
  /\ UNCHANGED <<hookPageVars, hookDetailVars, detailsCache, detailCalls,
                 qa>>
  /\ UNCHANGED <<pv, lk, sort>>

\* The explorer connected, showing the last, partial page of its first
\* fetch, nothing expanded and nothing exported yet
InitExport ==
  /\ isConnected = TRUE
  /\ filters = initialFiltersState
  /\ pagination = [initialPaginationState EXCEPT !.totalCount = PartialRows]
  /\ pagingCookieRef = Undefined
  /\ pagingCookieCacheRef = EmptyMap
  /\ entries = PartialRows
  /\ isLoading = FALSE
  /\ error = Null
  /\ detailsMap = NoDetails
  /\ detailsCache = NoDetails
  /\ isLoadingDetails = FALSE
  /\ inflight = {}
  /\ inflightDetails = [e \in EntryIds |-> 0]
  /\ nextFetchId = 2
  /\ filterChanges = 0
  /\ detailFetches = 0
  /\ entriesFrom = 1
  /\ completedSinceClear = {1}
  /\ cursorSinceClear = {}
  /\ lastIssuedPage = 1
  /\ increasing = TRUE
  /\ lastOp = Op("response", 1, Undefined, 1, FALSE, FALSE)
  /\ detailCalls = NoCalls
  /\ qa = QaIdle
  /\ ex = ExIdle
  /\ pv = PvIdle
  /\ lk = LkIdle
  /\ sort = initialSortState

NextExport ==
  \/ \E m \in MaxRecordsValues, a \in Availables : QueryAllCall(m, a)
  \/ \E d \in BOOLEAN, t \in {"details", "access"}, a \in ExportAvailables :
       ExportData(d, t, a)
  \/ \E r \in QaResponses(qa) : QueryAllAnswer(r)
  \/ \E e \in EntryIds, o \in {"details", "noResponse", "error"} :
       ExportDetailsDone(e, o)
  \/ \E o \in {"details", "error"} : ExportOtherDetailsDone(o)
  \/ \E s \in BOOLEAN : ExportSaved(s)
  \/ \E e \in EntryIds, n \in EntityNames, otc \in {"", "contact"} :
       LoadDetails(e, n, otc)
  \/ \E e \in EntryIds, o \in {"details", "noResponse", "error"} :
       DetailsDone(e, o)

SpecExport == InitExport /\ [][NextExport]_vars

\* The remote service answers every request of queryAllAuditLogs
SpecExportLive == SpecExport /\ WF_vars(\E r \in QaResponses(qa) : QueryAllAnswer(r))

\* A call the running export awaits settles: a page of the bulk fetch, a
\* getAuditDetails call of the current chunk, or the save dialog
ExportAnswered ==
  \/ \E r \in QaResponses(qa) : QueryAllAnswer(r)
  \/ \E e \in EntryIds, o \in {"details", "noResponse", "error"} :
       ExportDetailsDone(e, o)
  \/ \E o \in {"details", "error"} : ExportOtherDetailsDone(o)
  \/ \E s \in BOOLEAN : ExportSaved(s)

\* The explorer as in InitExport, with the details of the tracked entry
\* either not loaded or loaded by an earlier row expansion
InitExportSettles ==
  /\ isConnected = TRUE
  /\ filters = initialFiltersState
  /\ pagination = [initialPaginationState EXCEPT !.totalCount = PartialRows]
  /\ pagingCookieRef = Undefined
  /\ pagingCookieCacheRef = EmptyMap
  /\ entries = PartialRows
  /\ isLoading = FALSE
  /\ error = Null
  /\ \E loaded \in SUBSET EntryIds :
       /\ detailsMap = [e \in loaded |-> "details"]
       /\ detailsCache = [e \in loaded |-> "details"]
       /\ detailFetches = Cardinality(loaded)
       /\ detailCalls = [e \in EntryIds |-> IF e \in loaded THEN 1 ELSE 0]
       /\ lastOp = IF loaded = {}
                     THEN Op("response", 1, Undefined, 1, FALSE, FALSE)
                     ELSE Op("detailsResponse", 0, Undefined, 0, FALSE, FALSE)
  /\ isLoadingDetails = FALSE
  /\ inflight = {}
  /\ inflightDetails = [e \in EntryIds |-> 0]
  /\ nextFetchId = 2
  /\ filterChanges = 0
  /\ entriesFrom = 1
  /\ completedSinceClear = {1}
  /\ cursorSinceClear = {}
  /\ lastIssuedPage = 1
  /\ increasing = TRUE
  /\ qa = QaIdle
  /\ ex = ExIdle
  /\ pv = PvIdle
  /\ lk = LkIdle
  /\ sort = initialSortState

\* The awaited executeParallel of the host rejects: the catch of exportData
\* sets error and lastExport and returns the failed result, the finally
\* resets isExporting and exportProgress. The getAuditDetails calls of the
\* chunk that are still running are not followed further.
ExportCaught ==
  /\ ex.pc = "details"
  /\ ex' = [ex EXCEPT !.pc = "done", !.isExporting = FALSE,
                      !.lastExport = "failed", !.error = "Export failed",
                      !.exportProgress = Progress("none", 0, 0),
                      !.pending = {}]
  /\ UNCHANGED <<hookPageVars, hookDetailVars, detailsCache, detailCalls,
                 qa>>
  /\ UNCHANGED <<pv, lk, sort>>

\* exportData and the calls it awaits, the rest of the explorer idle
NextExportSettles ==
  \/ \E d \in BOOLEAN, t \in {"details", "access"}, a \in ExportAvailables :
       ExportData(d, t, a)
  \/ ExportAnswered
  \/ ExportCaught

SpecExportSettles ==
  InitExportSettles /\ [][NextExportSettles]_vars /\ WF_vars(ExportAnswered)

\* --------------------------------------------------------- privilege cache
\* The privileges the privilege query returns, one per page, and the
\* friendly labels the roleeditorlayouts query knows
PrivilegePages == <<"prvReadContact", "prvWriteContact">>
SourceLabels == [n \in {"prvReadContact"} |-> "Read Contact"]

\* loadRoleEditorLayouts: the promise it returns resolves to the cached
\* labels (kind "value") or follows the label fetch `run`, which it starts
\* when none is in flight.
loadRoleEditorLayouts(p) ==
  IF p.roleEditorLayoutCache.set THEN
    [pv |-> p,
     src |-> [kind |-> "value", run |-> 0, value |-> p.roleEditorLayoutCache]]
  ELSE IF p.roleEditorLayoutCachePromise # 0 THEN
    [pv |-> p,
     src |-> [kind |-> "run", run |-> p.roleEditorLayoutCachePromise,
              value |-> NullRef]]
  ELSE
    LET j == Len(p.lruns) + 1 IN
    [pv |-> [p EXCEPT !.lruns = Append(@, [pc |-> "query",
                                           result |-> NullRef]),
                      !.roleEditorLayoutCachePromise = j],
     src |-> [kind |-> "run", run |-> j, value |-> NullRef]]

\* fetchAllPrivileges up to its first await: the label load is started,
\* then the first privilege page is requested.
fetchAllPrivileges(p) ==
  LET lay == loadRoleEditorLayouts(p) IN
  [lay.pv EXCEPT !.runs = Append(@, [pc |-> "query", page |-> 1,
                                     cache |-> [n \in {} |-> NullRef],
                                     src |-> lay.src,
                                     result |-> NullRef])]

\* loadPrivileges, called by one more caller: the cached map, else the
\* promise of the load in flight, else a new load.
loadPrivilegesAlwaysFetches(p) ==
  LET k == Len(p.runs) + 1 IN
  [fetchAllPrivileges(p) EXCEPT
     !.privilegeCachePromise = k,
     !.calls = Append(@, [run |-> k, result |-> NullRef])]

loadPrivileges(p) ==
  IF p.privilegeCache.set THEN
    [p EXCEPT !.calls = Append(@, [run |-> 0, result |-> p.privilegeCache])]
  ELSE IF p.privilegeCachePromise # 0 THEN
    [p EXCEPT !.calls = Append(@, [run |-> p.privilegeCachePromise,
                                   result |-> NullRef])]
  ELSE
    LET k == Len(p.runs) + 1 IN
    [fetchAllPrivileges(p) EXCEPT
       !.privilegeCachePromise = k,
       !.calls = Append(@, [run |-> k, result |-> NullRef])]

\* The display names applied at the end of fetchAllPrivileges
ApplyLabels(cache, layouts) ==
  [n \in DOMAIN cache |->
     IF n \in DOMAIN layouts
       THEN [cache[n] EXCEPT !.displayName = layouts[n]]
       ELSE cache[n]]

\* fetchAllPrivileges of load k returns `map`: its promise resolves, the
\* loadPrivileges call that started it assigns privilegeCache and clears
\* the in-flight marker, and every caller waiting on the promise gets it.
SettleRun(p, k, map) ==
  LET res == MapObject(k, map) IN
  [p EXCEPT !.runs[k].pc = "settled",
            !.runs[k].result = res,
            !.privilegeCache = res,
            !.privilegeCachePromise = 0,
            !.calls = [i \in DOMAIN p.calls |->
                         IF p.calls[i].run = k
                           THEN [p.calls[i] EXCEPT !.result = res]
                           ELSE p.calls[i]]]

\* Load k reaches `await layoutsPromise`
AwaitLayouts(p, k) ==
  LET src == p.runs[k].src IN
  IF src.kind = "value" THEN
    SettleRun(p, k, ApplyLabels(p.runs[k].cache, src.value.map))
  ELSE IF p.lruns[src.run].pc = "settled" THEN
    SettleRun(p, k, ApplyLabels(p.runs[k].cache, p.lruns[src.run].result.map))
  ELSE [p EXCEPT !.runs[k].pc = "layouts"]

\* The answer to the privilege page request of load k: a page with or
\* without a next link, an empty response, or a rejection (caught: the
\* function returns what it has).
PrivilegePage(p, k, outcome) ==
  LET run == p.runs[k]
      name == PrivilegePages[run.page]
      got == [n \in DOMAIN run.cache \cup {name} |->
                IF n \in DOMAIN run.cache THEN run.cache[n]
                ELSE [name |-> n, displayName |-> "none"]]
  IN CASE outcome = "reject" -> SettleRun(p, k, run.cache)
       [] outcome = "null" -> AwaitLayouts(p, k)
       [] outcome = "more" ->
            [p EXCEPT !.runs[k].cache = got, !.runs[k].page = @ + 1]
       [] OTHER -> AwaitLayouts([p EXCEPT !.runs[k].cache = got], k)

\* The loads waiting for label fetch j continue, in the order they started
RECURSIVE ResumeWaiting(_, _, _)
ResumeWaiting(p, j, k) ==
  IF k > Len(p.runs) THEN p
  ELSE IF p.runs[k].pc = "layouts" /\ p.runs[k].src.run = j
    THEN ResumeWaiting(AwaitLayouts(p, k), j, k + 1)
    ELSE ResumeWaiting(p, j, k + 1)

\* The answer to the label request of label fetch j: the labels, or
\* nothing (empty response or rejection); loadRoleEditorLayouts assigns
\* roleEditorLayoutCache and clears its in-flight marker.
LayoutPage(p, j, outcome) ==
  LET labels == IF outcome = "last" THEN SourceLabels
                ELSE [n \in {} |-> ""]
      res == MapObject(j, labels)
  IN ResumeWaiting([p EXCEPT !.lruns[j].pc = "settled",
                             !.lruns[j].result = res,
                             !.roleEditorLayoutCache = res,
                             !.roleEditorLayoutCachePromise = 0],
                   j, 1)

clearPrivilegeCache(p) ==
  [p EXCEPT !.privilegeCache = NullRef, !.privilegeCachePromise = 0,
            !.roleEditorLayoutCache = NullRef,
            !.roleEditorLayoutCachePromise = 0,
            !.clears = @ + 1]

isPrivilegeCacheLoaded == pv.privilegeCache.set

\* ------------------------------------------- principal and attribute caches
\* lookupPrincipalName up to its await: the cached name when there is one
\* (a name is a non-empty string), else the remote lookup for a user or a
\* team; any other principal type is cached as 'Unknown' at once.
PrincipalCacheKey(principalId, principalType) ==
  [type |-> principalType, id |-> principalId]

lookupPrincipalName(l, key) ==
  IF key \in DOMAIN l.principalNameCache THEN
    [l EXCEPT !.names = Append(@, l.principalNameCache[key])]
  ELSE IF key.type \in {"systemuser", "team"} THEN
    [l EXCEPT !.principalCalls[key] = @ + 1,
              !.principalInflight[key] = @ + 1]
  ELSE
    [l EXCEPT !.principalNameCache = MapSet(@, key, "Unknown"),
              !.names = Append(@, "Unknown")]

\* The answer to a remote principal lookup: a record with a name, one
\* without, or a rejection (not cached)
lookupPrincipalNameDone(l, key, outcome) ==
  LET name == IF outcome = "name" THEN "Ann" ELSE "Unknown" IN
  [l EXCEPT !.principalInflight[key] = @ - 1,
            !.principalNameCache =
               IF outcome = "reject" THEN @ ELSE MapSet(@, key, name),
            !.names = Append(@, name)]

\* getEntityAttributes up to its await: the cached list (an array, always
\* truthy) or the metadata request
getEntityAttributes(l, table) ==
  IF table \in DOMAIN l.attributeCache THEN l
  ELSE [l EXCEPT !.attributeCalls[table] = @ + 1,
                 !.attributeInflight[table] = @ + 1]

\* The answer to the metadata request: the attributes, or a rejection
\* (returns [] and caches nothing)
getEntityAttributesDone(l, table, outcome) ==
  [l EXCEPT !.attributeInflight[table] = @ - 1,
            !.attributeCache =
               IF outcome = "reject" THEN @ ELSE MapSet(@, table, "attributes")]

\* ---------------------------------------------------- cache specifications
hookVars == <<progVars, histVars, sort>>

LoadPrivileges ==
  /\ Len(pv.calls) < MaxPrivilegeCalls
  /\ pv' = loadPrivileges(pv)
  /\ UNCHANGED <<hookVars, qa, ex, lk>>

PrivilegeAnswer(k, outcome) ==
  /\ k \in 1..Len(pv.runs)
  /\ pv.runs[k].pc = "query"
  /\ outcome = "more" => pv.runs[k].page < Len(PrivilegePages)
  /\ pv' = PrivilegePage(pv, k, outcome)
  /\ UNCHANGED <<hookVars, qa, ex, lk>>

LayoutAnswer(j, outcome) ==
  /\ j \in 1..Len(pv.lruns)
  /\ pv.lruns[j].pc = "query"
  /\ pv' = LayoutPage(pv, j, outcome)
  /\ UNCHANGED <<hookVars, qa, ex, lk>>

ClearPrivilegeCache ==
  /\ pv.clears < MaxPrivilegeClears
  /\ pv' = clearPrivilegeCache(pv)
  /\ UNCHANGED <<hookVars, qa, ex, lk>>

LookupPrincipalName(principalId, principalType) ==
  LET key == PrincipalCacheKey(principalId, principalType) IN
  /\ lk.principalCalls[key] < MaxLookups
  /\ Len(lk.names) < MaxLookups + 1
  /\ lk' = lookupPrincipalName(lk, key)
  /\ UNCHANGED <<hookVars, qa, ex, pv>>

LookupAnswer(key, outcome) ==
  /\ lk.principalInflight[key] > 0
  /\ lk' = lookupPrincipalNameDone(lk, key, outcome)
  /\ UNCHANGED <<hookVars, qa, ex, pv>>

GetEntityAttributes(table) ==
  /\ lk.attributeCalls[table] < MaxLookups
  /\ lk' = getEntityAttributes(lk, table)
  /\ UNCHANGED <<hookVars, qa, ex, pv>>

AttributesAnswer(table, outcome) ==
  /\ lk.attributeInflight[table] > 0
  /\ lk' = getEntityAttributesDone(lk, table, outcome)
  /\ UNCHANGED <<hookVars, qa, ex, pv>>

NextPrivileges ==
  \/ LoadPrivileges
  \/ \E k \in 1..MaxPrivilegeCalls,
        o \in {"more", "last", "null", "reject"} : PrivilegeAnswer(k, o)
  \/ \E j \in 1..MaxPrivilegeCalls, o \in {"last", "null", "reject"} :
       LayoutAnswer(j, o)
  \/ ClearPrivilegeCache

SpecPrivileges == Init /\ [][NextPrivileges]_vars

NextLookups ==
  \/ \E k \in PrincipalKeys : LookupPrincipalName(k.id, k.type)
  \/ \E k \in PrincipalKeys, o \in {"name", "noName", "reject"} :
       LookupAnswer(k, o)
  \/ \E t \in AttributeTables : GetEntityAttributes(t)
  \/ \E t \in AttributeTables, o \in {"attributes", "reject"} :
       AttributesAnswer(t, o)

SpecLookups == Init /\ [][NextLookups]_vars

\* ------------------------------------------------------------------ claims
AllPages == 1..(MaxPage + 1)
pageNumber == pagination.pageNumber
LastIssued == nextFetchId - 1

\* C1: in every reachable state canNavigateToPage(p) is true exactly when
\* p = 1, or p = pageNumber + 1 and the current cursor is set, or the cursor
\* cache has an entry for p.
C1_CanNavigateContract ==
  \A p \in AllPages :
    canNavigateToPage(p) <=>
      \/ p = 1
      \/ p = pageNumber + 1 /\ pagingCookieRef # Undefined
      \/ p \in DOMAIN pagingCookieCacheRef

\* C1 witness: the next page is navigable through the current cursor alone,
\* an earlier page through the cache, and a later page is not navigable.
C1_Witness ==
  /\ pagingCookieRef # Undefined
  /\ (pageNumber + 1) \notin DOMAIN pagingCookieCacheRef
  /\ canNavigateToPage(pageNumber + 1)
  /\ pageNumber \in DOMAIN pagingCookieCacheRef
  /\ ~canNavigateToPage(pageNumber + 2)

\* The last step was the completion of a fetch of the page now shown.
CurrentPageFetched ==
  lastOp.op = "response" /\ lastOp.page = pageNumber

C3_Original ==
  \A k \in AllPages :
    k > pageNumber + 1 =>
      (canNavigateToPage(k) <=> k \in completedSinceClear)

\* C3 amended: for every page k > current+1, canNavigateTo(k) is true iff
\* a fetch that requested page k-1 has completed with a cursor since the
\* cursor cache was last cleared.
C3_Amended ==
  \A k \in AllPages :
    k > pageNumber + 1 =>
      (canNavigateToPage(k) <=> (k - 1) \in cursorSinceClear)

\* C3 witness: back on page 1, page 3 is navigable and page 4 is not.
C3_Witness ==
  /\ pageNumber = 1
  /\ canNavigateToPage(3)
  /\ ~canNavigateToPage(4)
  /\ 3 \notin completedSinceClear

Unreachable(p) ==
  /\ p # pageNumber
  /\ p # 1
  /\ p # pageNumber + 1
  /\ p \notin DOMAIN pagingCookieCacheRef

\* C4: setPage(p) for a page that is not the current page, not page 1, not
\* current+1 and has no cached cursor changes nothing: pagination, cursor,
\* cache, fetches in flight and the error state stay as they are.
C4_UnreachablePageIsNoOp ==
  [][\A p \in Pages :
       (lastOp'.op = "setPage" /\ lastOp'.page = p /\ Unreachable(p)) =>
         /\ UNCHANGED progVars
         /\ nextFetchId' = nextFetchId
         /\ lastOp'.warned]_vars

\* C4 witness: setPage(3) was called on page 1 with nothing cached for 3.
C4_Witness ==
  /\ lastOp.op = "setPage" /\ lastOp.page = 3 /\ lastOp.warned
  /\ pageNumber = 1
  /\ Unreachable(3)
  /\ error = Null

\* C5: right after setTables the cursor cache is empty, the current cursor
\* unset, pageNumber 1, and detailsMap and the detail cache are empty.
C5_SetTablesResets ==
  lastOp.op = "setTables" =>
    /\ pagingCookieCacheRef = EmptyMap
    /\ pagingCookieRef = Undefined
    /\ pageNumber = 1
    /\ DOMAIN detailsMap = {}
    /\ DOMAIN detailsCache = {}

\* C5 witness: setTables was called on a later page (lastOp.page is the
\* page shown when it was called) while connected.
C5_Witness ==
  /\ lastOp.op = "setTables" /\ lastOp.page > 1
  /\ isConnected
  /\ filters.tableLogicalNames = <<"contact">>

\* C5 witness of the detail half: setTables was called after details had
\* been loaded for an entry.
C5_WitnessDetails ==
  /\ lastOp.op = "setTables"
  /\ detailFetches > 0 /\ inflightDetails = [e \in EntryIds |-> 0]
  /\ entriesFrom > 0

FilterChanged == lastOp.op \in {"setTables", "filterChange"}

\* C6: after a filter-changing operation the next fetch issued is for page 1
\* with no cursor, and no fetch is ever issued with a cursor that was
\* obtained under another filter state than the one it queries.
C6_NoCursorAcrossFilters ==
  /\ (FilterChanged /\ isConnected) =>
       \E f \in inflight :
         f.id = LastIssued /\ f.pageNumber = 1 /\ f.pagingCookie = Undefined
  /\ \A f \in inflight :
       f.pagingCookie # Undefined =>
         f.pagingCookie.q = QueryKey(f.filters)

\* The filter, page or page size changed since request f was issued.
Stale(f) ==
  \/ f.filters # filters
  \/ f.pageNumber # pagination.pageNumber
  \/ f.pageSize # pagination.pageSize

\* C7: the response to a fetch issued under an earlier filter/pagination
\* state changes neither the displayed entries, nor the current cursor, nor
\* the cursor cache, nor totalCount/hasMoreRecords.
C7_StaleResponseIgnored ==
  [][\A f \in inflight :
       (lastOp'.op = "response" /\ lastOp'.id = f.id /\ Stale(f)) =>
         UNCHANGED <<entries, pagingCookieRef, pagingCookieCacheRef,
                     pagination>>]_vars

\* C8: the cursor cache gains or changes an entry only when a fetch
\* completes with a cursor, and then only the entry under (page that fetch
\* requested) + 1, which becomes that cursor.
C8_CacheInsertOnlyOnCompletion ==
  [][\A k \in DOMAIN pagingCookieCacheRef' :
       (\/ k \notin DOMAIN pagingCookieCacheRef
        \/ pagingCookieCacheRef'[k] # pagingCookieCacheRef[k]) =>
         /\ lastOp'.op = "response"
         /\ ~lastOp'.threw
         /\ lastOp'.cookie # Undefined
         /\ pagingCookieCacheRef'[k] = lastOp'.cookie
         /\ \E f \in inflight \ inflight' :
              /\ f.id = lastOp'.id
              /\ k = f.pageNumber + 1
              /\ lastOp'.cookie.page = f.pageNumber]_vars

\* C8 witness: a fetch completed with a cursor after setPage had moved to
\* another page, and the cursor is cached under the requested page + 1.
C8_Witness ==
  /\ lastOp.op = "response" /\ lastOp.cookie # Undefined
  /\ lastOp.page # pageNumber
  /\ (lastOp.page + 1) \in DOMAIN pagingCookieCacheRef
  /\ pagingCookieCacheRef[lastOp.page + 1] = lastOp.cookie
  /\ (pageNumber + 1) \notin DOMAIN pagingCookieCacheRef

\* C9: recording the cursor of a completed fetch never overwrites a cached
\* cursor: an entry of the cache keeps its value until the cache is cleared.
C9_NeverOverwrites ==
  [][\A k \in DOMAIN pagingCookieCacheRef \cap DOMAIN pagingCookieCacheRef' :
       pagingCookieCacheRef'[k] = pagingCookieCacheRef[k]]_vars

\* C10 as claimed: while pages are fetched in strictly increasing order
\* from page 1, the cache holds a cursor for page N only if page N has been
\* fetched.
C10_Original ==
  increasing =>
    \A n \in DOMAIN pagingCookieCacheRef : n \in completedSinceClear

\* C10 amended: while pages are fetched in strictly increasing order from
\* page 1, the cache holds a cursor for page N only if page N-1 has been
\* fetched.
C10_Amended ==
  increasing =>
    \A n \in DOMAIN pagingCookieCacheRef : (n - 1) \in completedSinceClear

\* C10 witness: pages 1 and 2 were fetched in that order, and the cache
\* holds the cursors for pages 2 and 3 while page 3 has not been fetched.
C10_Witness ==
  /\ increasing /\ lastIssuedPage = 2
  /\ DOMAIN pagingCookieCacheRef = {2, 3}
  /\ completedSinceClear = {1, 2}

\* ---------------------------------------------------------------- C11
\* The state right after setPageSize: the cursor cache is empty, the
\* current cursor is unset and pageNumber is 1.
setPageSizePostState ==
  lastOp.op = "setPageSize" =>
    /\ pagingCookieCacheRef = EmptyMap
    /\ pagingCookieRef = Undefined
    /\ pagination.pageNumber = 1

\* C11: setPageSize(n) always leaves the cursor cache empty, the current
\* cursor unset, pageNumber = 1 and pageSize = n, so that no later fetch uses
\* a cursor captured under the old page size. Only setPageSize changes the
\* page size while no filter was changed, so until then every fetch that
\* carries a cursor carries one captured under the page size it requests.
C11_NoCursorAcrossPageSizes ==
  filterChanges = 0 =>
    \A f \in inflight :
      Truthy(f.pagingCookie) => f.pagingCookie.pageSize = f.pageSize

\* ---------------------------------------------------------------- C12
\* The number of entries collected from the first i pages
Collected(i) == Total(SubSeq(qa.allEntries, 1, Min(i, Len(qa.allEntries))))

\* C12: for maxRecords = M > 0 and a source that hands out its records page
\* by page, queryAllAuditLogs returns exactly min(M, available) entries, the
\* first ones in page order with the last page cut to the remaining quota,
\* and every page request was sent while fewer than M entries were held.
C12_CapRespected ==
  (qa.pc = "done" /\ qa.maxRecords > 0 /\ qa.faithful) =>
    LET want == Min(qa.maxRecords, qa.available)
        pages == (want + ExportPageSize - 1) \div ExportPageSize
    IN /\ Total(qa.allEntries) = want
       /\ Len(qa.allEntries) = pages
       /\ \A i \in 1..pages :
            qa.allEntries[i] =
              [page |-> i,
               n |-> Min(ExportPageSize, want - ExportPageSize * (i - 1))]
       /\ \A i \in 1..Len(qa.requests) : Collected(i - 1) < qa.maxRecords

\* The cap is met in the middle of the second page
C12_Witness ==
  /\ qa.pc = "done" /\ qa.faithful
  /\ qa.maxRecords = 300 /\ qa.available = 600
  /\ qa.allEntries = <<[page |-> 1, n |-> 250], [page |-> 2, n |-> 50]>>
  /\ Len(qa.requests) = 2

\* ---------------------------------------------------------------- C13
\* An answer after which the loop must stop
Stops(i) ==
  \/ qa.answers[i].result.entries = 0
  \/ ~qa.answers[i].result.hasMoreRecords
  \/ qa.maxRecords > 0 /\ Collected(i) >= qa.maxRecords

QueryAllInOrder ==
  /\ \A i \in 1..Len(qa.requests) :
       /\ qa.requests[i].pageNumber = i
       /\ qa.requests[i].pagingCookie =
            IF i = 1 THEN Undefined ELSE qa.answers[i - 1].result.pagingCookie
  /\ \A i \in 1..Len(qa.answers) : i < Len(qa.requests) => ~Stops(i)
  /\ qa.pc = "await" => Len(qa.requests) = Len(qa.answers) + 1
  /\ qa.pc = "done" =>
       /\ Len(qa.requests) = Len(qa.answers)
       /\ Len(qa.answers) > 0
       /\ Stops(Len(qa.answers))
  /\ qa.maxRecords > 0 => Len(qa.requests) <= qa.maxRecords

\* C13: queryAllAuditLogs requests pages 1, 2, 3, ... in order, each with
\* the cursor the previous page returned, and stops at the first answer
\* that reaches the cap, holds no entries or reports hasMoreRecords = false;
\* with maxRecords = M > 0 it sends at most M requests and so terminates.
C13_QueryAllStops ==
  /\ []QueryAllInOrder
  /\ (qa.pc = "await" /\ qa.maxRecords \in 1..MaxExportPages)
       ~> (qa.pc = "done")

\* Three pages were requested with chained cursors before the source ended
C13_Witness ==
  /\ qa.pc = "done"
  /\ Len(qa.requests) = 3
  /\ qa.requests[3].pagingCookie = qa.answers[2].result.pagingCookie
  /\ Truthy(qa.requests[3].pagingCookie)
  /\ ~qa.answers[3].result.hasMoreRecords

\* The cap of two records is reached by two one-record pages
C13_WitnessCap ==
  /\ qa.pc = "done"
  /\ qa.maxRecords = 2
  /\ Len(qa.requests) = 2
  /\ qa.answers[2].result.hasMoreRecords

\* ---------------------------------------------------------------- C14
\* C14: two requests for the details of the same audit entry that are
\* started before either completes share one remote detail fetch: at no
\* time are two remote calls for the same entry id awaiting their answer.
C14_OneFetchInFlight ==
  \A e \in EntryIds : inflightDetails[e] <= 1

\* ---------------------------------------------------------------- C18
\* C18: details of an audit entry are fetched from the remote service at
\* most once between two clears of the detail cache, whoever asks (row
\* expansion or the export): a remote detail call for an entry, made while
\* no other call for it is in flight, is the first since the last clear.
C18_FetchedOncePerClear ==
  [][\A e \in EntryIds :
       (/\ detailCalls'[e] = detailCalls[e] + 1
        /\ inflightDetails[e] = 0
        /\ e \notin ex.pending) => detailCalls[e] = 0]_vars

\* ---------------------------------------------------------------- C15
\* C15: loadPrivileges calls with no clearPrivilegeCache in between share
\* one load: the privilege fetch and the label fetch are each started at
\* most once, and all callers that have been answered hold the same map,
\* which is the cached one.
C15_SharedLoad ==
  pv.clears = 0 =>
    /\ Len(pv.runs) <= 1
    /\ Len(pv.lruns) <= 1
    /\ \A i \in 1..Len(pv.calls) :
         /\ pv.calls[i].result.set => pv.calls[i].result = pv.privilegeCache
         /\ ~pv.calls[i].result.set =>
              /\ pv.calls[i].run = 1
              /\ pv.privilegeCachePromise = 1

\* Three calls overlapped one load and all received its map
C15_Witness ==
  /\ pv.clears = 0
  /\ Len(pv.calls) = 3
  /\ \A i \in 1..3 : pv.calls[i].run = 1 /\ pv.calls[i].result.set
  /\ DOMAIN pv.privilegeCache.map = {"prvReadContact", "prvWriteContact"}

\* ---------------------------------------------------------------- C16
\* C16: overlapping lookupPrincipalName calls for the same principal, and
\* overlapping getEntityAttributes calls for the same table, collapse into
\* one remote request: never two requests for one key in flight.
C16_OneLookupInFlight ==
  /\ \A k \in PrincipalKeys : lk.principalInflight[k] <= 1
  /\ \A t \in AttributeTables : lk.attributeInflight[t] <= 1

\* ---------------------------------------------------------------- C17
\* C17: the privilege cache is set only once both the privilege fetch and
\* the label load of its load have completed, on every path, and each
\* cached privilege carries the label of its name when the label table
\* has one and none otherwise.
C17_ReadyAfterBoth ==
  (pv.clears = 0 /\ isPrivilegeCacheLoaded) =>
    LET run == pv.runs[pv.privilegeCache.run]
        map == pv.privilegeCache.map
    IN /\ run.src.kind = "run"
       /\ pv.lruns[run.src.run].pc = "settled"
       /\ \A n \in DOMAIN map :
            LET labels == pv.lruns[run.src.run].result.map IN
            map[n].displayName =
              IF n \in DOMAIN labels THEN labels[n] ELSE "none"

\* ---------------------------------------------------------------- C19
\* C19: queryAuditLogs never rejects, and when the remote query call
\* rejects or returns nothing its result is exactly {entries: [],
\* totalCount: 0, hasMoreRecords: false}, with no cursor.
C19_FailureIsEmptyPage ==
  \A i \in 1..Len(qa.answers) :
    /\ ~qa.answers[i].result.threw
    /\ qa.answers[i].response.kind \in {"reject", "null"} =>
         qa.answers[i].result =
           [entries |-> 0, totalCount |-> 0, hasMoreRecords |-> FALSE,
            pagingCookie |-> Undefined, threw |-> FALSE]

\* A page was collected, then the remote call of the second page rejected
C19_Witness ==
  /\ qa.pc = "done"
  /\ Len(qa.answers) = 2
  /\ qa.answers[2].response.kind = "reject"
  /\ Total(qa.allEntries) = ExportPageSize

\* ---------------------------------------------------------------- C20
\* C20: when the remote call of a page fetch fails, the hook's error state
\* is non-null and entries are empty once the fetch has settled, on the
\* general query path and on the record history path.
C20_FailureSetsError ==
  (lastOp.op = "response" /\ lastOp.failed) =>
    /\ error # Null
    /\ entries = 0

\* ------------------------------------------------------- filter reducer
\* The actions a caller of useAuditFilters can dispatch, with the payloads
\* tried
FilterPayloads(type) ==
  CASE type = "SET_TABLES" -> {<<>>, <<"contact">>, <<"contact", "account">>}
    [] type = "SET_RECORD" ->
         {[id |-> Null, name |-> Null], [id |-> "r1", name |-> "Record"]}
    [] type \in {"SET_FROM_DATE", "SET_TO_DATE"} -> {Null, "2024-01-01"}
    [] type = "CLEAR_FILTERS" -> {Null}
    [] OTHER -> {<<>>, <<"x">>}

FilterActionTypes ==
  {"SET_TABLES", "SET_RECORD", "SET_ATTRIBUTES", "SET_OPERATIONS",
   "SET_ACTIONS", "SET_FROM_DATE", "SET_TO_DATE", "SET_USERS",
   "SET_SECURITY_ROLES", "CLEAR_FILTERS"}

\* dispatch(action) of useAuditFilters on the reducer state alone
DispatchFilter(type, payload) ==
  /\ filters' = filterReducer(filters, type, payload)
  /\ lastOp' = Op(type, 0, Undefined, 0, FALSE, FALSE)
  /\ UNCHANGED <<isConnected, pagination, pagingCookieRef,
                 pagingCookieCacheRef, entries, isLoading, error, detailsMap,
                 detailsCache, isLoadingDetails, inflight, inflightDetails>>
  /\ UNCHANGED <<nextFetchId, filterChanges, detailFetches, entriesFrom,
                 completedSinceClear, cursorSinceClear, lastIssuedPage,
                 increasing, detailCalls>>
  /\ UNCHANGED <<sort, svcVars>>

NextFilters ==
  \E type \in FilterActionTypes :
    \E payload \in FilterPayloads(type) : DispatchFilter(type, payload)

SpecFilters == Init /\ [][NextFilters]_vars

\* ------------------------------------------------------------------ sorting
\* setSort(column) of useAuditSorting, called from a column header; sort is
\* no dependency of fetchAuditLogs, so no effect runs
SetSort(column) ==
  /\ sort' = setSort(sort, column)
  /\ lastOp' = [op |-> "setSort", column |-> column]
  /\ UNCHANGED <<isConnected, filters, pagination, pagingCookieRef,
                 pagingCookieCacheRef, entries, isLoading, error, detailsMap,
                 detailsCache, isLoadingDetails, inflight, inflightDetails>>
  /\ UNCHANGED <<nextFetchId, filterChanges, detailFetches, entriesFrom,
                 completedSinceClear, cursorSinceClear, lastIssuedPage,
                 increasing, detailCalls>>
  /\ UNCHANGED svcVars

\* The entry table with its column headers and its pager
NextSorting ==
  \/ Connect
  \/ \E page \in Pages : SetPage(page)
  \/ Response
  \/ \E column \in SortColumns : SetSort(column)

SpecSorting == Init /\ [][NextSorting]_vars

\* ------------------------------------------------------- pure functions
\* A call of a function of the services, kept with its arguments and what
\* it returned
Call(name, input, output) ==
  [op |-> name, input |-> input, output |-> output]

\* The functions are pure: each behaviour holds one call
CallMade(call) ==
  /\ lastOp.op = "init"
  /\ lastOp' = call
  /\ UNCHANGED <<isConnected, filters, pagination, pagingCookieRef,
                 pagingCookieCacheRef, entries, isLoading, error, detailsMap,
                 detailsCache, isLoadingDetails, inflight, inflightDetails>>
  /\ UNCHANGED <<nextFetchId, filterChanges, detailFetches, entriesFrom,
                 completedSinceClear, cursorSinceClear, lastIssuedPage,
                 increasing, detailCalls>>
  /\ UNCHANGED <<sort, svcVars>>

\* The pagination arguments and the answers of fetchXmlQuery tried on
\* queryAuditLogs: no rows, one row or a full page, a record without
\* auditid among them or not, the cursor, the more-records flag and the
\* total count (0: omitted) supplied or left out, and the failures.
PageRequests ==
  { Request(0, initialFiltersState,
            [pageNumber |-> n, pageSize |-> size], Undefined) :
      n \in Pages, size \in PageSizes }

PageResponses(f) ==
  { Shape(k, 0, "absent", 1, "absent", 0) :
      k \in {"reject", "null", "malformed"} }
  \cup { [Shape("ok", rows, c, 1, m, t) EXCEPT !.dropped = d] :
           rows \in {1, f.pageSize}, d \in {0, 1},
           c \in {"absent", "present"}, m \in {"absent", "true", "false"},
           t \in {0, ReportedTotal} }
  \cup { Shape("ok", 0, c, 1, m, t) :
           c \in {"absent", "present"}, m \in {"absent", "true", "false"},
           t \in {0, ReportedTotal} }

QueryAuditLogsCall(f, r) ==
  CallMade(Call("queryAuditLogs", [request |-> f, response |-> r],
                queryAuditLogs(f, r)))

\* String.prototype.includes and startsWith
Includes(str, sub) ==
  \E i \in 1..(Len(str) - Len(sub) + 1) :
    SubSeq(str, i, i + Len(sub) - 1) = sub

StartsWith(str, prefix) ==
  Len(str) >= Len(prefix) /\ SubSeq(str, 1, Len(prefix)) = prefix

\* Array.prototype.join(', ')
RECURSIVE Join(_)
Join(strs) ==
  IF Len(strs) = 0 THEN ""
  ELSE IF Len(strs) = 1 THEN strs[1]
  ELSE strs[1] \o ", " \o Join(Tail(strs))

\* ----------------------------------------------------- attribute details
\* JavaScript values of an audited attribute: undefined, null, a string
\* or a number with its String() text
Undef == [t |-> "undefined", s |-> ""]
NullV == [t |-> "null", s |-> ""]
Str(text) == [t |-> "string", s |-> text]
Num(text) == [t |-> "number", s |-> text]
Absent == [t |-> "absent", s |-> ""]

FormattedSuffix == "@OData.Community.Display.V1.FormattedValue"
\* The keys tried, in the order the containers list them
AllKeys == <<"name", "@odata.etag", "_ownerid_value", "name" \o FormattedSuffix>>

EmptyValues == [k \in {} |-> Undef]

ValueAt(values, k) == IF k \in DOMAIN values THEN values[k] ELSE Undef

\* formatAuditValue: null for null and undefined, else the formatted-value
\* annotation of the attribute when the container has a truthy one, else
\* String(value)
formatAuditValue(value, allValues, attrName) ==
  IF value.t \in {"undefined", "null"} THEN Null
  ELSE IF ValueAt(allValues, attrName \o FormattedSuffix).t
            \in {"string", "number"}
    THEN ValueAt(allValues, attrName \o FormattedSuffix).s
  ELSE value.s

\* OldValue / NewValue of an audit detail: missing (form "none"), an
\* object with an Attributes array of key/value pairs, or a plain object
ValuesOf(container) ==
  IF container.form = "none" THEN EmptyValues ELSE container.values

\* The loop over allAttributes of parseAttributeAuditDetail
RECURSIVE AttributeRows(_, _, _, _)
AttributeRows(keys, oldValues, newValues, attributeMap) ==
  IF keys = <<>> THEN <<>>
  ELSE
    LET attrName == Head(keys)
        oldVal == ValueAt(oldValues, attrName)
        newVal == ValueAt(newValues, attrName)
        rest == AttributeRows(Tail(keys), oldValues, newValues, attributeMap)
    IN IF StartsWith(attrName, "@") \/ StartsWith(attrName, "_") THEN rest
       ELSE IF oldVal.t = "undefined" /\ newVal.t = "undefined" THEN rest
       ELSE <<[type |-> "attribute", attributeName |-> attrName,
               attributeDisplayName |->
                 IF attrName \in DOMAIN attributeMap
                   THEN attributeMap[attrName] ELSE attrName,
               oldValue |-> formatAuditValue(oldVal, oldValues, attrName),
               newValue |-> formatAuditValue(newVal, newValues, attrName)]>>
            \o rest

\* parseAttributeAuditDetail: the keys of the old values, then the new
\* ones not seen yet; nothing when the body throws
parseAttributeAuditDetail(auditDetail, attributeMap) ==
  LET oldValues == ValuesOf(auditDetail.OldValue)
      newValues == ValuesOf(auditDetail.NewValue)
      allAttributes ==
        SelectSeq(AllKeys, LAMBDA k : k \in DOMAIN oldValues)
        \o SelectSeq(AllKeys, LAMBDA k : k \in DOMAIN newValues
                                           /\ k \notin DOMAIN oldValues)
  IN IF auditDetail.throws THEN <<>>
     ELSE AttributeRows(allAttributes, oldValues, newValues, attributeMap)

\* The other variant parsers: one item tagged with the variant, or nothing
\* when the body throws
parseShareAuditDetail(auditDetail) ==
  IF auditDetail.throws THEN <<>> ELSE <<[type |-> "share"]>>

parseRolePrivilegeAuditDetail(auditDetail) ==
  IF auditDetail.throws THEN <<>> ELSE <<[type |-> "rolePrivilege"]>>

parseUserAccessAuditDetail(auditDetail) ==
  IF auditDetail.throws THEN <<>> ELSE <<[type |-> "userAccess"]>>

parseRelationshipAuditDetail(auditDetail) ==
  IF auditDetail.throws THEN <<>> ELSE <<[type |-> "relationship"]>>

parseAuditDetailRelationshipFirst(auditDetail, attributeMap) ==
  IF Includes(auditDetail.odataType, "RelationshipAuditDetail")
    THEN parseRelationshipAuditDetail(auditDetail)
  ELSE IF Includes(auditDetail.odataType, "ShareAuditDetail")
    THEN parseShareAuditDetail(auditDetail)
  ELSE <<>>

parseAuditDetail(auditDetail, attributeMap) ==
  IF Includes(auditDetail.odataType, "ShareAuditDetail")
    THEN parseShareAuditDetail(auditDetail)
  ELSE IF Includes(auditDetail.odataType, "RolePrivilegeAuditDetail")
    THEN parseRolePrivilegeAuditDetail(auditDetail)
  ELSE IF Includes(auditDetail.odataType, "UserAccessAuditDetail")
    THEN parseUserAccessAuditDetail(auditDetail)
  ELSE IF Includes(auditDetail.odataType, "RelationshipAuditDetail")
    THEN parseRelationshipAuditDetail(auditDetail)
  ELSE IF auditDetail.OldValue.form # "none"
            \/ auditDetail.NewValue.form # "none"
    THEN parseAttributeAuditDetail(auditDetail, attributeMap)
  ELSE <<>>

\* The audit details tried: the values of "name" and the presence of the
\* other keys, per container; the type discriminants, one of them holding
\* two variant names; the display names known for the table
NameValues == {Absent, Undef, NullV, Str("1"), Num("1"), Str("b")}

ValueMaps ==
  { [k \in { AllKeys[i] : i \in { j \in 1..4 : <<n.t # "absent", e, o, f>>[j] } }
       |-> IF k = "name" THEN n ELSE Str("One")] :
      n \in NameValues, e \in BOOLEAN, o \in BOOLEAN, f \in BOOLEAN }

Containers ==
  { [form |-> "none", values |-> EmptyValues] }
  \cup { [form |-> form, values |-> values] :
           form \in {"attributes", "object"}, values \in ValueMaps }

FewContainers ==
  { [form |-> "none", values |-> EmptyValues],
    [form |-> "object", values |-> EmptyValues],
    [form |-> "attributes", values |-> [k \in {"name"} |-> Str("b")]] }

ODataPrefix == "#Microsoft.Dynamics.CRM."

ODataTypes ==
  { "", ODataPrefix \o "AttributeAuditDetail",
    ODataPrefix \o "ShareAuditDetail",
    ODataPrefix \o "RolePrivilegeAuditDetail",
    ODataPrefix \o "UserAccessAuditDetail",
    ODataPrefix \o "RelationshipAuditDetail",
    ODataPrefix \o "RelationshipAuditDetail ShareAuditDetail",
    ODataPrefix \o "UserAccessAuditDetail RolePrivilegeAuditDetail" }

KnownAttributes == [k \in {"name"} |-> "Name"]

ParseAttributeAuditDetailCall(oldValue, newValue) ==
  LET auditDetail == [odataType |-> ODataPrefix \o "AttributeAuditDetail",
                      OldValue |-> oldValue, NewValue |-> newValue,
                      throws |-> FALSE]
  IN CallMade(Call("parseAttributeAuditDetail", auditDetail,
                   parseAttributeAuditDetail(auditDetail, KnownAttributes)))

ParseAuditDetailCall(odataType, oldValue, newValue, throws) ==
  LET auditDetail == [odataType |-> odataType, OldValue |-> oldValue,
                      NewValue |-> newValue, throws |-> throws]
  IN CallMade(Call("parseAuditDetail", auditDetail,
                   parseAuditDetail(auditDetail, KnownAttributes)))

\* ---------------------------------------------------------- access rights
\* AccessRights, in the order formatAccessRightsFromNumber tests them
AccessRightsSequentialBits ==
  <<[label |-> "Read", flag |-> 1], [label |-> "Write", flag |-> 2],
    [label |-> "Append", flag |-> 4], [label |-> "AppendTo", flag |-> 8],
    [label |-> "Create", flag |-> 16], [label |-> "Delete", flag |-> 65536],
    [label |-> "Share", flag |-> 262144],
    [label |-> "Assign", flag |-> 524288]>>

AccessRights ==
  <<[label |-> "Read", flag |-> 1], [label |-> "Write", flag |-> 2],
    [label |-> "Append", flag |-> 4], [label |-> "AppendTo", flag |-> 16],
    [label |-> "Create", flag |-> 32], [label |-> "Delete", flag |-> 65536],
    [label |-> "Share", flag |-> 262144],
    [label |-> "Assign", flag |-> 524288]>>

\* value & flag is non-zero, for a one-bit flag and 0 <= value < 2^31
HasFlag(value, flag) == (value \div flag) % 2 = 1

formatAccessRightsFromNumber(value) ==
  IF value = 0 THEN "None"
  ELSE
    LET set == SelectSeq(AccessRights, LAMBDA a : HasFlag(value, a.flag))
        flags == [i \in 1..Len(set) |-> set[i].label]
    IN IF Len(flags) > 0 THEN Join(flags) ELSE "None"

\* The bitmasks tried: every combination of the eight flags, with and
\* without the bit 8 that names no right
RECURSIVE SumOf(_)
SumOf(S) ==
  IF S = {} THEN 0
  ELSE LET x == CHOOSE y \in S : TRUE IN x + SumOf(S \ {x})

AccessMasks ==
  { SumOf(S) + extra :
      S \in SUBSET {1, 2, 4, 16, 32, 65536, 262144, 524288},
      extra \in {0, 8} }

FormatAccessRightsCall(value) ==
  CallMade(Call("formatAccessRightsFromNumber", value,
                formatAccessRightsFromNumber(value)))

NextFunctions ==
  \/ \E f \in PageRequests : \E r \in PageResponses(f) :
       QueryAuditLogsCall(f, r)
  \/ \E o \in Containers, n \in Containers :
       ParseAttributeAuditDetailCall(o, n)
  \/ \E t \in ODataTypes, o \in FewContainers, n \in FewContainers,
        throws \in BOOLEAN : ParseAuditDetailCall(t, o, n, throws)
  \/ \E value \in AccessMasks : FormatAccessRightsCall(value)

SpecFunctions == Init /\ [][NextFunctions]_vars

\* ---------------------------------------------------------------- C23
\* A record is selected only with exactly one table
RecordNeedsOneTable(f) ==
  f.recordId # Null => Len(f.tableLogicalNames) = 1

\* C23 as stated: in every reachable filter state a non-null recordId
\* implies that exactly one table is selected, whatever sequence of
\* filter actions was dispatched.
C23_Original == RecordNeedsOneTable(filters)

\* C23 amended: no filter action other than a SET_RECORD dispatched while
\* the number of selected tables is not one takes the filter state from
\* one where a selected record implies exactly one table to one where it
\* does not: SET_TABLES and CLEAR_FILTERS clear the record, the other
\* actions touch neither field.
C23_Amended ==
  [][(RecordNeedsOneTable(filters) /\ ~RecordNeedsOneTable(filters')) =>
       /\ Len(filters.tableLogicalNames) # 1
       /\ filters' = filterReducer(filters, "SET_RECORD",
                                   [id |-> filters'.recordId,
                                    name |-> filters'.recordName])]_vars

\* A record was selected under one table and two tables were then
\* selected: the record is gone
C23_Witness ==
  /\ lastOp.op = "SET_TABLES"
  /\ Len(filters.tableLogicalNames) = 2
  /\ filters.recordId = Null
  /\ filters.operations = <<"x">>

\* A record is selected under one table after other filters were set
C23_WitnessRecord ==
  /\ lastOp.op = "SET_RECORD"
  /\ filters.tableLogicalNames = <<"contact">>
  /\ filters.recordId = "r1"
  /\ filters.selectedUsers = <<"x">>

\* ---------------------------------------------------------------- C21
\* C21: getAuditDetails never rejects, and a failure for one entry of an
\* export leaves that entry alone with an empty detail list: the entry's
\* place in exportDetailsMap is decided by its own outcome whatever
\* happened to the other entries, every chunk completes, and the export
\* goes on to exportAuditLogs and settles with its result.
C21_DetailFailureIsLocal ==
  /\ ~ex.rejected
  /\ \A e \in DOMAIN ex.ownOutcome :
       (ex.chunk > 1 \/ ex.pc \in {"saving", "done"}) =>
         /\ e \in DOMAIN ex.exportDetailsMap
         /\ ex.exportDetailsMap[e] =
              IF ex.ownOutcome[e] = "details" THEN "details" ELSE "empty"
  /\ (ex.pc \in {"saving", "done"} /\ ex.toLoad > 0) =>
       /\ ex.loadedCount = ex.toLoad
       /\ ex.settled = ex.toLoad
  /\ (ex.pc = "done" /\ ex.toLoad > 0) =>
       ex.lastExport \in {"success", "failed"}

\* Another entry of the export failed, the tracked one has its details and
\* the export succeeded
C21_Witness ==
  /\ ex.pc = "done" /\ ex.lastExport = "success"
  /\ ex.othersFailed
  /\ "a1" \in DOMAIN ex.ownOutcome
  /\ ex.ownOutcome["a1"] = "details"
  /\ ex.exportDetailsMap["a1"] = "details"

\* The tracked entry failed alone, in the first of three chunks, and the
\* export succeeded
C21_WitnessOwn ==
  /\ ex.pc = "done" /\ ex.lastExport = "success"
  /\ ~ex.othersFailed
  /\ ex.toLoad = 120
  /\ "a1" \in DOMAIN ex.ownOutcome
  /\ ex.ownOutcome["a1"] = "error"
  /\ ex.exportDetailsMap["a1"] = "empty"

\* ---------------------------------------------------------------- C22
\* C22: the export loads details in consecutive chunks of at most 50: at
\* most 50 getAuditDetails calls are unsettled, a call of a later chunk is
\* issued only after every call of the chunks before it has settled, the
\* progress count is updated once per completed chunk (50, 100, ... up to
\* the number of entries to load) and ends at that number.
C22_ChunksOfFifty ==
  /\ ex.started - ex.settled <= batchSize
  /\ ex.started > 0 =>
       ex.settled >= batchSize * ((ex.started - 1) \div batchSize)
  /\ ex.pc = "details" =>
       /\ ex.inflight = ex.started - ex.settled
       /\ ex.inflight \in 1..batchSize
       /\ ex.exportProgress = Progress("details", ex.loadedCount, ex.toLoad)
  /\ Len(ex.reports) = ex.settled \div batchSize
                         + (IF ex.settled = ex.toLoad
                               /\ ex.toLoad % batchSize # 0 THEN 1 ELSE 0)
  /\ \A i \in 1..Len(ex.reports) :
       ex.reports[i] = Min(i * batchSize, ex.toLoad)
  /\ (ex.pc \in {"saving", "done"} /\ ex.toLoad > 0) =>
       ex.reports[Len(ex.reports)] = ex.toLoad

\* The third, partial chunk of 120 entries is being loaded after two
\* progress updates
C22_Witness ==
  /\ ex.pc = "details"
  /\ ex.toLoad = 120 /\ ex.chunk = 3
  /\ ex.inflight = 20
  /\ ex.reports = <<50, 100>>

\* The export of 120 entries reached exportAuditLogs after three updates
C22_WitnessEnd ==
  /\ ex.pc = "saving"
  /\ ex.reports = <<50, 100, 120>>

\* ---------------------------------------------------------------- C24
\* The walk ended at the top of the loop because the cap was reached: the
\* last page had entries and announced more records
StoppedAtCap ==
  /\ qa.pc = "done"
  /\ qa.maxRecords > 0
  /\ Total(qa.allEntries) >= qa.maxRecords
  /\ qa.answers[Len(qa.answers)].result.entries > 0
  /\ qa.answers[Len(qa.answers)].result.hasMoreRecords

\* C24: when the bulk walk stops because maxRecords was reached,
\* queryAllAuditLogs ends normally and its result carries an explicit
\* capped signal that tells a capped result from a complete one.
C24_CappedSignal ==
  StoppedAtCap =>
    /\ "capped" \in DOMAIN QaResult(qa)
    /\ QaResult(qa).capped = TRUE

\* ---------------------------------------------------------------- C25
\* The more-records rule of the page query: the flag of the service when it
\* is supplied, else whether the answer holds at least pageSize rows
FlagRule(request, response) ==
  IF response.moreRecords # "absent" THEN response.moreRecords = "true"
  ELSE response.rows >= request.pageSize

\* C25 as stated: for every page response hasMoreRecords equals the
\* service's more-records flag when supplied and (rows >= pageSize) when
\* omitted.
C25_Original ==
  lastOp.op = "queryAuditLogs" =>
    lastOp.output.hasMoreRecords
      = FlagRule(lastOp.input.request, lastOp.input.response)

\* C25 amended: for every page response that holds at least one row
\* hasMoreRecords equals the service's more-records flag when supplied and
\* (rows >= pageSize) when omitted; a response without rows, like a
\* failed call, gives hasMoreRecords = false whatever the flag says.
C25_Amended ==
  lastOp.op = "queryAuditLogs" =>
    lastOp.output.hasMoreRecords
      = IF lastOp.input.response.kind = "ok"
             /\ lastOp.input.response.rows > 0
          THEN FlagRule(lastOp.input.request, lastOp.input.response)
          ELSE FALSE

\* A full page without the flag, one of its records skipped: the rows,
\* not the entries, decide
C25_Witness ==
  /\ lastOp.op = "queryAuditLogs"
  /\ lastOp.input.response.moreRecords = "absent"
  /\ lastOp.input.response.rows = lastOp.input.request.pageSize
  /\ lastOp.input.response.dropped = 1
  /\ lastOp.output.entries = lastOp.input.request.pageSize - 1
  /\ lastOp.output.hasMoreRecords

\* A full page whose flag says that no records follow
C25_WitnessFlag ==
  /\ lastOp.op = "queryAuditLogs"
  /\ lastOp.input.response.moreRecords = "false"
  /\ lastOp.input.response.rows = lastOp.input.request.pageSize
  /\ ~lastOp.output.hasMoreRecords

\* ---------------------------------------------------------------- C26
\* The total-count rule: the count of the service when it is supplied,
\* else entries * (pageNumber + 1) when more records follow and
\* entries + (pageNumber - 1) * pageSize when none do
TotalRule(request, response, result) ==
  IF response.totalRecordCount # 0 THEN response.totalRecordCount
  ELSE IF result.hasMoreRecords
    THEN result.entries * (request.pageNumber + 1)
  ELSE result.entries + (request.pageNumber - 1) * request.pageSize

\* C26 as stated: the total-count rule gives totalCount for every page
\* response of the service.
C26_Original ==
  (lastOp.op = "queryAuditLogs" /\ lastOp.input.response.kind = "ok") =>
    lastOp.output.totalCount
      = TotalRule(lastOp.input.request, lastOp.input.response, lastOp.output)

\* C26 amended: the total-count rule gives totalCount for every page
\* response that holds at least one row; a response without rows gives
\* the supplied count, or 0 when none is supplied, and a failed call 0,
\* on any page.
C26_Amended ==
  lastOp.op = "queryAuditLogs" =>
    lastOp.output.totalCount
      = IF lastOp.input.response.kind # "ok" THEN 0
        ELSE IF lastOp.input.response.rows = 0
          THEN lastOp.input.response.totalRecordCount
        ELSE TotalRule(lastOp.input.request, lastOp.input.response,
                       lastOp.output)

\* Page 2, a full page with one record skipped and no count: the entries
\* are multiplied
C26_Witness ==
  /\ lastOp.op = "queryAuditLogs"
  /\ lastOp.input.request.pageNumber = 2
  /\ lastOp.input.request.pageSize = 25
  /\ lastOp.input.response.totalRecordCount = 0
  /\ lastOp.input.response.dropped = 1
  /\ lastOp.output.hasMoreRecords
  /\ lastOp.output.totalCount = 72

\* Page 3, one row, no count and no more records
C26_WitnessLast ==
  /\ lastOp.op = "queryAuditLogs"
  /\ lastOp.input.request.pageNumber = 3
  /\ lastOp.input.request.pageSize = 25
  /\ lastOp.input.response.totalRecordCount = 0
  /\ ~lastOp.output.hasMoreRecords
  /\ lastOp.output.totalCount = 51

\* ---------------------------------------------------------------- C27
\* The variant the discriminant selects: the first of share,
\* rolePrivilege, userAccess, relationship whose name it contains, else
\* attribute when an OldValue or NewValue container is present
VariantOf(auditDetail) ==
  IF Includes(auditDetail.odataType, "ShareAuditDetail") THEN "share"
  ELSE IF Includes(auditDetail.odataType, "RolePrivilegeAuditDetail")
    THEN "rolePrivilege"
  ELSE IF Includes(auditDetail.odataType, "UserAccessAuditDetail")
    THEN "userAccess"
  ELSE IF Includes(auditDetail.odataType, "RelationshipAuditDetail")
    THEN "relationship"
  ELSE IF auditDetail.OldValue.form # "none"
            \/ auditDetail.NewValue.form # "none" THEN "attribute"
  ELSE "none"

\* C27: parseAuditDetail classifies by substring match on the type
\* discriminant, the first match winning in the order share,
\* rolePrivilege, userAccess, relationship; without a match it returns the
\* attribute details when an OldValue or NewValue container is present
\* and nothing otherwise; every returned item carries the tag of the
\* variant chosen.
C27_Dispatch ==
  lastOp.op = "parseAuditDetail" =>
    LET variant == VariantOf(lastOp.input) IN
    /\ \A i \in 1..Len(lastOp.output) : lastOp.output[i].type = variant
    /\ variant = "none" => lastOp.output = <<>>
    /\ (variant \in {"share", "rolePrivilege", "userAccess", "relationship"}
          /\ ~lastOp.input.throws) => Len(lastOp.output) = 1
    /\ variant = "attribute" =>
         lastOp.output
           = parseAttributeAuditDetail(lastOp.input, KnownAttributes)

\* A discriminant that names relationship and share is parsed as share
C27_Witness ==
  /\ lastOp.op = "parseAuditDetail"
  /\ Includes(lastOp.input.odataType, "RelationshipAuditDetail")
  /\ Includes(lastOp.input.odataType, "ShareAuditDetail")
  /\ lastOp.output = <<[type |-> "share"]>>

\* No discriminant and a NewValue container: one attribute row
C27_WitnessAttribute ==
  /\ lastOp.op = "parseAuditDetail"
  /\ lastOp.input.odataType = ""
  /\ lastOp.input.OldValue.form = "none"
  /\ Len(lastOp.output) = 1
  /\ lastOp.output[1].type = "attribute"

\* ---------------------------------------------------------------- C28
\* The keys of the old or new values that start with neither '@' nor '_'
\* and whose formatted old and new values differ
ChangedKeys(oldValues, newValues) ==
  { k \in DOMAIN oldValues \cup DOMAIN newValues :
      /\ ~StartsWith(k, "@")
      /\ ~StartsWith(k, "_")
      /\ formatAuditValue(ValueAt(oldValues, k), oldValues, k)
           # formatAuditValue(ValueAt(newValues, k), newValues, k) }

\* C28: the attribute parser emits exactly one row for every key of the
\* old or new values that starts with neither '@' nor '_' and whose
\* stringified old and new values differ, and no row for equal values.
C28_OnlyChangedRows ==
  lastOp.op = "parseAttributeAuditDetail" =>
    LET changed == ChangedKeys(ValuesOf(lastOp.input.OldValue),
                               ValuesOf(lastOp.input.NewValue))
    IN /\ { lastOp.output[i].attributeName : i \in 1..Len(lastOp.output) }
            = changed
       /\ Len(lastOp.output) = Cardinality(changed)

\* ---------------------------------------------------------------- C29
\* The flags and labels as the claim lists them
ListedRights ==
  <<<<"Read", 1>>, <<"Write", 2>>, <<"Append", 4>>, <<"AppendTo", 16>>,
    <<"Create", 32>>, <<"Delete", 65536>>, <<"Share", 262144>>,
    <<"Assign", 524288>>>>

RECURSIVE LabelsFrom(_, _)
LabelsFrom(value, i) ==
  IF i > Len(ListedRights) THEN <<>>
  ELSE (IF (value \div ListedRights[i][2]) % 2 = 1
          THEN <<ListedRights[i][1]>> ELSE <<>>)
       \o LabelsFrom(value, i + 1)

\* C29: the access-right decoder maps a bitmask to "None" when none of
\* Read(1), Write(2), Append(4), AppendTo(16), Create(32), Delete(65536),
\* Share(262144), Assign(524288) is set, and otherwise to the labels of
\* exactly the set flags, in that order, joined by ", ".
C29_Decoder ==
  lastOp.op = "formatAccessRightsFromNumber" =>
    LET labels == LabelsFrom(lastOp.input, 1) IN
    /\ labels = <<>> => lastOp.output = "None"
    /\ labels # <<>> => lastOp.output = Join(labels)
    /\ lastOp.input = 0 => lastOp.output = "None"
    /\ lastOp.input = 3 => lastOp.output = "Read, Write"
    /\ lastOp.input = 8 => lastOp.output = "None"
    /\ lastOp.input = 24 => lastOp.output = "AppendTo"

\* The bitmask 3 is decoded
C29_Witness ==
  /\ lastOp.op = "formatAccessRightsFromNumber"
  /\ lastOp.input = 3
  /\ lastOp.output = "Read, Write"

\* Every flag is set
C29_WitnessAll ==
  /\ lastOp.op = "formatAccessRightsFromNumber"
  /\ lastOp.input = 1 + 2 + 4 + 16 + 32 + 65536 + 262144 + 524288
  /\ lastOp.output
       = "Read, Write, Append, AppendTo, Create, Delete, Share, Assign"

\* ---------------------------------------------------------------- C30
\* C30: every page fetch the hook issues for page N > 1 carries the cursor
\* that a fetch of page N-1 returned, and every fetch for page 1 carries
\* no cursor, whether the fetch comes from navigation, from a refresh of
\* the current page or from the connection becoming active.
C30_FetchCarriesCursor ==
  \A f \in inflight :
    IF f.pageNumber = 1 THEN ~Truthy(f.pagingCookie)
    ELSE /\ Truthy(f.pagingCookie)
         /\ f.pagingCookie.page = f.pageNumber - 1

\* ---------------------------------------------------------------- C31
\* C31: setPage(p) with p different from the current page changes
\* pageNumber to p only if canNavigateToPage(p) is true in the state in
\* which it is called; it does not advance to current + 1 when no cursor
\* is known for that page.
C31_SetPageOnlyNavigable ==
  [][(lastOp'.op = "setPage" /\ pagination'.pageNumber # pagination.pageNumber)
       => canNavigateToPage(pagination'.pageNumber)]_vars

\* ---------------------------------------------------------------- C32
\* Page k is navigable: canNavigateToPage(k) is true and setPage(k) leaves
\* the hook on page k
Navigable(k) ==
  canNavigateToPage(k) /\ setPage(PS, k).pagination.pageNumber = k

\* C32: when every page fetch completed since the cursor cache was last
\* cleared returned a cursor and no fetch is pending, every page from 1 to
\* the current page is navigable.
C32_VisitedPagesNavigable ==
  (/\ completedSinceClear # {}
   /\ cursorSinceClear = completedSinceClear
   /\ inflight = {})
    => \A k \in 1..pagination.pageNumber : Navigable(k)

\* ---------------------------------------------------------------- C33
\* C33: every filter-changing operation leaves the pagination state at its
\* initial value (page 1, page size 50, totalCount 0, hasMoreRecords
\* false) whatever page size had been chosen, with no cursor, an empty
\* cursor cache and no details; setSelectedAttributes is the one filter
\* setter that changes none of them.
C33_FilterChangeResetsAll ==
  [][/\ lastOp'.op \in {"setTables", "filterChange"} =>
          /\ pagination' = initialPaginationState
          /\ pagingCookieRef' = Undefined
          /\ pagingCookieCacheRef' = EmptyMap
          /\ detailsMap' = NoDetails
          /\ detailsCache' = NoDetails
     /\ lastOp'.op = "setSelectedAttributes" =>
          UNCHANGED <<pagination, pagingCookieRef, pagingCookieCacheRef,
                      detailsMap, detailsCache>>]_vars

\* A filter was changed while a fetch with page size 25 was pending: the
\* page size is 50 again
C33_Witness ==
  /\ lastOp.op = "filterChange"
  /\ \E f \in inflight : f.pageSize = 25
  /\ pagination = initialPaginationState

\* The attributes were chosen on a later page with a cursor cached
C33_WitnessAttributes ==
  /\ lastOp.op = "setSelectedAttributes"
  /\ pagination.pageNumber = 2
  /\ pagination.totalCount > 0
  /\ DOMAIN pagingCookieCacheRef # {}

\* ---------------------------------------------------------------- C34
\* C34: isLoading is true in every state in which at least one page fetch
\* issued by fetchAuditLogs is still awaiting its answer, and false when
\* none is.
C34_LoadingWhileInFlight ==
  isLoading <=> (inflight # {})

\* ---------------------------------------------------------------- C35
\* A load in flight that the in-flight marker no longer names: the marker
\* was reset by clearPrivilegeCache after the load started
Superseded(k) ==
  /\ k \in 1..Len(pv.runs)
  /\ pv.runs[k].pc # "settled"
  /\ pv.clears > 0
  /\ pv.privilegeCachePromise # k

\* C35: when a load that was in flight at a clearPrivilegeCache() call
\* completes, it neither assigns the privilege cache nor touches the
\* in-flight marker (which may name a load started after the clear).
C35_OldLoadLeavesCache ==
  [][\A k \in 1..MaxPrivilegeCalls :
       (Superseded(k) /\ pv'.runs[k].pc = "settled") =>
          /\ pv'.privilegeCache = pv.privilegeCache
          /\ pv'.privilegeCachePromise = pv.privilegeCachePromise]_vars

\* ---------------------------------------------------------------- C36
\* C36: when the remote detail call for an entry fails, the empty list is
\* stored for it in the detail cache and shown; while the cache holds that
\* empty list no loadDetails sends a new remote detail request for the
\* entry, and a loadDetails that finds the entry only in the cache shows
\* the empty list.
C36_FailureCachedNotRetried ==
  [][\A e \in EntryIds :
       /\ (/\ lastOp'.op = "detailsResponse" /\ lastOp'.failed
           /\ inflightDetails'[e] < inflightDetails[e]) =>
            /\ e \in DOMAIN detailsCache' /\ detailsCache'[e] = "empty"
            /\ e \in DOMAIN detailsMap' /\ detailsMap'[e] = "empty"
       /\ (e \in DOMAIN detailsCache /\ detailsCache[e] = "empty") =>
            /\ inflightDetails'[e] <= inflightDetails[e]
            /\ detailFetches' <= detailFetches
            /\ (lastOp'.op = "loadDetails" /\ e \notin DOMAIN detailsMap) =>
                 (e \in DOMAIN detailsMap' /\ detailsMap'[e] = "empty")]_vars

\* The one remote call for a1 failed: the empty list is cached and shown
C36_Witness ==
  /\ lastOp.op = "detailsResponse" /\ lastOp.failed
  /\ "a1" \in DOMAIN detailsCache /\ detailsCache["a1"] = "empty"
  /\ "a1" \in DOMAIN detailsMap /\ detailsMap["a1"] = "empty"
  /\ detailCalls["a1"] = 1
  /\ inflightDetails["a1"] = 0

\* ---------------------------------------------------------------- C37
\* The sort state the claim gives for setSort(c) called in state prev
Cycled(prev, c) ==
  CASE prev.column = c /\ prev.direction = "desc" ->
         [column |-> c, direction |-> "asc"]
    [] prev.column = c /\ prev.direction = "asc" ->
         [column |-> Null, direction |-> Null]
    [] OTHER -> [column |-> c, direction |-> "desc"]

\* C37: setSort(c) on the sorted column goes desc -> asc -> unsorted and
\* from unsorted, or on another column, to {c, desc}, so that three calls
\* from {c, desc} return to it; column is null exactly when direction is;
\* and setSort changes neither filters, pagination, cursor, cursor cache,
\* entries nor the fetches issued and in flight.
C37_SortCycle ==
  /\ [](sort.column = Null <=> sort.direction = Null)
  /\ [](\A c \in SortColumns :
          LET start == [column |-> c, direction |-> "desc"] IN
          setSort(setSort(setSort(start, c), c), c) = start)
  /\ [][lastOp'.op = "setSort" =>
          /\ sort' = Cycled(sort, lastOp'.column)
          /\ UNCHANGED <<filters, pagination, pagingCookieRef,
                         pagingCookieCacheRef, entries, inflight,
                         nextFetchId, isLoading>>]_vars

\* The table was unsorted by a setSort made on page 2 while a fetch was
\* awaiting its answer
C37_Witness ==
  /\ lastOp.op = "setSort"
  /\ sort = [column |-> Null, direction |-> Null]
  /\ pagination.pageNumber = 2
  /\ inflight # {}

\* Another column was chosen while the table was sorted ascending
C37_WitnessOther ==
  /\ lastOp.op = "setSort" /\ lastOp.column = "userName"
  /\ sort = [column |-> "userName", direction |-> "desc"]
  /\ entries > 0

\* ---------------------------------------------------------------- C38
\* The filter states that differ from fl at most in the table (still one),
\* the operations, the actions, the date range and the users
SameRecordOtherFilters(fl) ==
  { [fl EXCEPT !.tableLogicalNames = t, !.operations = o, !.actions = a,
               !.fromDate = d1, !.toDate = d2, !.selectedUsers = u] :
      t \in {<<"contact">>, <<"account">>},
      o \in {<<>>, <<"x">>}, a \in {<<>>, <<"x">>},
      d1 \in {Null, "2024-01-01"}, d2 \in {Null, "2024-01-01"},
      u \in {<<>>, <<"x">>} }

\* The page fetchAuditLogs obtains for filters fl and pagination pag when
\* the service answers r
FetchedPage(fl, pag, r) ==
  LET f == Request(0, fl, pag, Undefined) IN
  IF UsesRecordHistory(fl) THEN getRecordChangeHistory(f, r)
  ELSE queryAuditLogs(f, r)

\* C38: with a record id and exactly one table selected the page query
\* holds the record id as its only condition: every filter state that
\* differs only in table, operations, actions, dates and users gives the
\* same query and, for the same answer, the same page.
C38_RecordQueryIgnoresOtherFilters ==
  UsesRecordHistory(filters) =>
    /\ QueryKey(filters) =
         [initialFiltersState EXCEPT !.recordId = filters.recordId]
    /\ \A g \in SameRecordOtherFilters(filters) :
         /\ QueryKey(g) = QueryKey(filters)
         /\ \A n \in Pages, size \in PageSizes :
              LET pag == [pageNumber |-> n, pageSize |-> size] IN
              \A r \in Responses(Request(0, g, pag, Undefined)) :
                FetchedPage(g, pag, r) = FetchedPage(filters, pag, r)

\* A record of the one selected table is shown with operations, a date
\* range and users chosen as well
C38_Witness ==
  /\ UsesRecordHistory(filters)
  /\ filters.operations # <<>>
  /\ filters.fromDate # Null /\ filters.toDate # Null
  /\ filters.selectedUsers # <<>>
  /\ filters.actions # <<>>

C39_WitnessNoData ==
  /\ ex.pc = "done" /\ ex.tabType = "access"
  /\ ex.lastExport = "noData"

\* The host call that runs a chunk rejected after 30 details had arrived
C39_WitnessCaught ==
  /\ ex.pc = "done" /\ ex.lastExport = "failed"
  /\ ex.chunk = 1 /\ ex.settled = 30
  /\ ~ex.isExporting /\ ex.exportProgress = Progress("none", 0, 0)

\* The save of an export on the access tab was cancelled or failed
C39_WitnessFailed ==
  /\ ex.pc = "done" /\ ex.tabType = "access"
  /\ ex.lastExport = "failed" /\ ex.error # Null

\* ---------------------------------------------------------------- C40
\* The filter fields other than the table list, and those that are neither
\* the table list nor the record
NonTableFields == DOMAIN initialFiltersState \ {"tableLogicalNames"}
NonRecordFields == NonTableFields \ {"recordId", "recordName"}

\* C40: SET_TABLES puts its payload in tableLogicalNames, sets recordId and
\* recordName to null and keeps every other field; CLEAR_FILTERS keeps
\* tableLogicalNames and sets every other field to its initial value.
C40_ReducerFrames ==
  /\ [](\A p \in FilterPayloads("SET_TABLES") :
          LET n == filterReducer(filters, "SET_TABLES", p) IN
          /\ n.tableLogicalNames = p
          /\ n.recordId = Null /\ n.recordName = Null
          /\ \A k \in NonRecordFields : n[k] = filters[k])
  /\ [](LET n == filterReducer(filters, "CLEAR_FILTERS", Null) IN
        /\ n.tableLogicalNames = filters.tableLogicalNames
        /\ \A k \in NonTableFields : n[k] = initialFiltersState[k])
  /\ [][/\ lastOp'.op = "SET_TABLES" =>
            /\ filters'.tableLogicalNames \in FilterPayloads("SET_TABLES")
            /\ filters'.recordId = Null /\ filters'.recordName = Null
            /\ \A k \in NonRecordFields : filters'[k] = filters[k]
        /\ lastOp'.op = "CLEAR_FILTERS" =>
            /\ filters'.tableLogicalNames = filters.tableLogicalNames
            /\ \A k \in NonTableFields :
                 filters'[k] = initialFiltersState[k]]_vars

\* SET_TABLES removed the record and kept the other filters that were set
C40_Witness ==
  /\ lastOp.op = "SET_TABLES"
  /\ filters.tableLogicalNames = <<"contact", "account">>
  /\ filters.recordId = Null
  /\ filters.operations # <<>> /\ filters.selectedUsers # <<>>
  /\ filters.fromDate # Null /\ filters.selectedAttributes # <<>>

\* CLEAR_FILTERS kept the two selected tables
C40_WitnessClear ==
  /\ lastOp.op = "CLEAR_FILTERS"
  /\ filters = [initialFiltersState EXCEPT
                  !.tableLogicalNames = <<"contact", "account">>]
====
